---- MODULE Spec2Model ----
(***************************************************************************)
(* Scene graph, focus registry and key dispatch of the kitty-ui library.   *)
(*                                                                         *)
(* The program state is the set of node objects (their parent link, child  *)
(* list, local and absolute position, visibility), the focus flags of the  *)
(* interactive components, the editing state of the text input, the tab    *)
(* container's tab list, and the scene's focus registry, focused reference *)
(* and root-level keyboard handlers.                                       *)
(***************************************************************************)
EXTENDS Integers, Sequences, FiniteSets, TLC

(***************************************************************************)
(* The objects of the model: one scene, one plain group, two buttons, one  *)
(* text input and one tab container, each with the child nodes its         *)
(* constructor creates.                                                    *)
(***************************************************************************)
NoNode == "null"

TheScene == "S"

Buttons == {"B1", "B2"}

TextInputs == {"I1"}

TabContainers == {"T"}

TabButton == <<"T.btn1", "T.btn2">>

TabBg == <<"T.btn1.bg", "T.btn2.bg">>

TabTitle == <<"T.btn1.title", "T.btn2.title">>

Components == Buttons \cup TextInputs

Nodes ==
    {TheScene, "S.bg", "G1", "B1", "B1.bg", "B1.text", "B2", "B2.bg", "B2.text",
     "I1", "I1.bg", "I1.text", "I1.cursor", "T", "T.bg", "T.bar", "T.ca",
     "T.btn1", "T.btn1.bg", "T.btn1.title", "T.btn2", "T.btn2.bg", "T.btn2.title"}

background == [c \in Components \cup TabContainers \cup {TheScene} |->
                 CASE c = "B1" -> "B1.bg" [] c = "B2" -> "B2.bg" [] c = "I1" -> "I1.bg"
                   [] c = "T" -> "T.bg" [] c = TheScene -> "S.bg"]

text == [c \in Components |->
           CASE c = "B1" -> "B1.text" [] c = "B2" -> "B2.text" [] c = "I1" -> "I1.text"]

cursor == [c \in TextInputs |-> "I1.cursor"]

tabBar == [t \in TabContainers |-> "T.bar"]

contentArea == [t \in TabContainers |-> "T.ca"]

\* The class of each object.
kind == [n \in Nodes |->
           CASE n = TheScene -> "Scene"
             [] n \in Buttons -> "Button"
             [] n \in TextInputs -> "TextInput"
             [] n \in TabContainers -> "TabContainer"
             [] n \in {"G1", "T.bar", "T.ca", "T.btn1", "T.btn2"} -> "Group"
             [] n \in {"S.bg", "B1.bg", "B2.bg", "I1.bg", "T.bg", "T.btn1.bg", "T.btn2.bg"} -> "Rectangle"
             [] OTHER -> "Text"]

\* Buttons constructed with an onClick callback.
onClick == {"B1"}

(***************************************************************************)
(* Bounds of the model and sizes passed to the constructors.               *)
(***************************************************************************)
\* Width (size[0]) of the text input; it holds at most InputWidth - 3 characters.
InputWidth == 5

\* size[1] of buttons and text inputs.
ComponentHeight == 3

\* Width of the text of a button (text.length); its size defaults to [text.length + 4, 3].
ButtonTextLen == 2

\* size[0] and tabHeight of the tab container, and the length of a tab title.
ContainerWidth == 40

TabHeight == 3

TitleLen == 4

\* Characters that can be typed.
Chars == {"a", "b"}

\* Keys passed to Scene.handleKey.
Keys == {"tab", "shift_tab", "up", "down", "left", "right", "enter", "backspace", "a"}

\* Keys for which a root-level handler may be registered on the scene.
HandlerKeys == {"tab", "down"}

\* Keys for which a handler may be registered on the text input.
InputHandlerKeys == {"enter", "a"}

\* Keys for which global handlers may be registered on the input manager, and the
\* handlers.
GlobalKeys == {"a", "shift_tab"}

GlobalHandlerIds == {"h1", "h2"}

\* Nodes passed as tab content to addTab.
TabContents == {"G1", "B2"}

VARIABLES
    parent,               \* Node.parent
    children,             \* Node.children
    position,             \* Node.position
    absolutePosition,     \* Node.absolutePosition
    visible,              \* Node.visible
    isFocused,            \* Button.isFocused, TextInput.isFocused
    value,                \* TextInput.value
    cursorPos,            \* TextInput.cursorPos
    tabs,                 \* TabContainer.tabs (the content node of each tab)
    activeTabIndex,       \* TabContainer.activeTabIndex (0-based, as in the code)
    focusedComponent,     \* Scene.focusedComponent
    focusableComponents,  \* Scene.focusableComponents, the focus registry
    keyboardHandlers,     \* Scene.keyboardHandlers (the keys that have a handler)
    tabIndex,             \* the optional tabIndex of each component (NoIndex = undefined)
    inputHandlers,        \* TextInput.keyboardHandlers (per key: none, or what the handler returns)
    frame,                \* what the last Renderer.renderScene did, call by call
    calls,                \* the callbacks invoked by the last operation, in order
    passes,               \* what each render pass of the last operation saw of the focus
    globalHandlers,       \* InputManager.globalHandlers (per key, the handlers in push order)
    currentInput,         \* KeyboardInputHandler._handleInput: the input not yet decoded
    chunk,                \* the chunk last read from the terminal
    tokens,               \* the keys dispatched from that chunk so far
    previous,             \* the chunk read before the current one, where that is recorded
    loop,                 \* KeyboardInputHandler: running, raw mode, promise, the loop's position
    rect,                 \* a Rectangle: its absolutePosition, size, color and fill
    wire,                 \* what Rectangle.render wrote to the terminal, write by write
    images,               \* the KittyUtil in use, an Image's source, the displayImage calls not yet settled
    typed,                \* the characters typed into the text input, while nothing else edited it
    last,                 \* the last operation, its arguments and its result
    insertionOrder,       \* the registry members in the order they were registered
    tabRun,               \* the run of consecutive 'tab' dispatches since the last other operation
    nops                  \* the number of operations performed so far

vars == <<parent, children, position, absolutePosition, visible, isFocused, value, cursorPos,
          tabs, activeTabIndex, focusedComponent, focusableComponents, keyboardHandlers,
          tabIndex, inputHandlers, frame, calls, passes, globalHandlers, currentInput, chunk,
          tokens,
          typed, previous, loop, rect, wire, images, last, insertionOrder, tabRun, nops>>

\* Everything but the rectangle and the terminal it is drawn on.
uiVars == <<parent, children, position, absolutePosition, visible, isFocused, value, cursorPos,
            tabs, activeTabIndex, focusedComponent, focusableComponents, keyboardHandlers,
            tabIndex, inputHandlers, frame, calls, passes, globalHandlers, currentInput, chunk,
          tokens,
            typed, previous, loop, last, insertionOrder, tabRun, nops>>

\* The state of the input layer, which the scene's own methods never touch.
managerVars == <<globalHandlers, currentInput, chunk, tokens>>

drawVars == <<rect, wire, images>>

loopVars == <<previous, loop>>

inputVars == <<managerVars, typed, drawVars, loopVars>>

\* tabIndex === undefined
NoIndex == -1

\* The program state as one record, so that the methods are functions from state to state.
\* Every operation starts with an empty log of callbacks.
St ==
    [parent |-> parent, children |-> children, position |-> position,
     absolutePosition |-> absolutePosition, visible |-> visible, isFocused |-> isFocused,
     value |-> value, cursorPos |-> cursorPos, tabs |-> tabs, activeTabIndex |-> activeTabIndex,
     focusedComponent |-> focusedComponent, focusableComponents |-> focusableComponents,
     keyboardHandlers |-> keyboardHandlers, tabIndex |-> tabIndex,
     inputHandlers |-> inputHandlers, frame |-> frame, calls |-> <<>>, passes |-> <<>>]

Commit(s) ==
    /\ parent' = s.parent
    /\ children' = s.children
    /\ position' = s.position
    /\ absolutePosition' = s.absolutePosition
    /\ visible' = s.visible
    /\ isFocused' = s.isFocused
    /\ value' = s.value
    /\ cursorPos' = s.cursorPos
    /\ tabs' = s.tabs
    /\ activeTabIndex' = s.activeTabIndex
    /\ focusedComponent' = s.focusedComponent
    /\ focusableComponents' = s.focusableComponents
    /\ keyboardHandlers' = s.keyboardHandlers
    /\ tabIndex' = s.tabIndex
    /\ inputHandlers' = s.inputHandlers
    /\ frame' = s.frame
    /\ calls' = s.calls
    /\ passes' = s.passes

(***************************************************************************)
(* Sequence helpers: Array.indexOf, Array.splice(i, 1).                    *)
(***************************************************************************)
\* Array.prototype.indexOf, 1-based; 0 when absent (the code's -1).
IndexOf(seq, x) ==
    IF \E i \in 1..Len(seq) : seq[i] = x
    THEN CHOOSE i \in 1..Len(seq) : seq[i] = x /\ \A j \in 1..(i - 1) : seq[j] # x
    ELSE 0

\* Array.prototype.splice(i, 1) for a 1-based i.
Splice(seq, i) == [j \in 1..(Len(seq) - 1) |-> IF j < i THEN seq[j] ELSE seq[j + 1]]

Add(p, q) == <<p[1] + q[1], p[2] + q[2]>>

(***************************************************************************)
(* Node: addChild, removeChild, updateTransform, getTabbableChildren.      *)
(***************************************************************************)
\* NodeRemoveChild with the child's parent link cleared whether or not it was found.
NodeRemoveChildUnchecked(s, p, c) ==
    [s EXCEPT !.children = [@ EXCEPT ![p] = IF IndexOf(@, c) > 0 THEN Splice(@, IndexOf(@, c))
                                            ELSE @],
              !.parent = [@ EXCEPT ![c] = NoNode]]

\* Node.removeChild: splices the first occurrence of child out of the child list.
NodeRemoveChild(s, p, c) ==
    LET index == IndexOf(s.children[p], c)
    IN  IF index > 0
        THEN [s EXCEPT !.children = [@ EXCEPT ![p] = Splice(@, index)],
                       !.parent = [@ EXCEPT ![c] = NoNode]]
        ELSE s

\* OwnAbsolute with the parent's local offset read in place of its absolute position.
OwnAbsoluteFromParentOffset(pa, po, ab, n) ==
    IF pa[n] # NoNode THEN Add(po[pa[n]], po[n]) ELSE po[n]

\* The position a node takes in updateTransform: parent's absolute position plus its own
\* offset, or its own offset when it has no parent.
OwnAbsolute(pa, po, ab, n) ==
    IF pa[n] # NoNode THEN Add(ab[pa[n]], po[n]) ELSE po[n]

RECURSIVE UpdateTransform(_, _, _, _, _)
RECURSIVE UpdateChildren(_, _, _, _, _, _)
\* Node.updateTransform: sets the node's own absolute position, then recurses into the
\* children in list order.  Returns the new absolutePosition of every node.
UpdateTransform(pa, ch, po, ab, n) ==
    UpdateChildren(pa, ch, po, [ab EXCEPT ![n] = OwnAbsolute(pa, po, ab, n)], ch[n], 1)

UpdateChildren(pa, ch, po, ab, kids, i) ==
    IF i > Len(kids)
    THEN ab
    ELSE UpdateChildren(pa, ch, po, UpdateTransform(pa, ch, po, ab, kids[i]), kids, i + 1)

\* Node.getTabbableChildren: the base implementation, which no class overrides.
GetTabbableChildren(s, n) == <<>>

(***************************************************************************)
(* Renderer.renderScene and the findScene helper of the components.        *)
(***************************************************************************)
RECURSIVE FindScene(_, _)
\* findScene: the nearest ancestor-or-self that is a Scene, NoNode when there is none.
FindScene(pa, n) ==
    IF n = NoNode THEN NoNode
    ELSE IF kind[n] = "Scene" THEN n
    ELSE FindScene(pa, pa[n])

\* One call made by the renderer: on the terminal (node = NoNode) or on a node, whose
\* absolute position at the time of the call is kept.
RenderCall(s, call, n) ==
    [call |-> call, node |-> n,
     at |-> IF n = NoNode THEN <<0, 0>> ELSE s.absolutePosition[n]]

RECURSIVE RenderNode(_, _)
RECURSIVE RenderChildNodes(_, _, _)
\* Renderer._renderNode: node.render, then _renderNode on every child in list order.
\* The visible flag is not read.
RenderNode(s, n) ==
    <<RenderCall(s, "render", n)>> \o RenderChildNodes(s, s.children[n], 1)

RenderChildNodes(s, kids, i) ==
    IF i > Len(kids) THEN <<>>
    ELSE RenderNode(s, kids[i]) \o RenderChildNodes(s, kids, i + 1)

\* renderScene, second statement: rootNode.updateTransform().
TransformPass(s) ==
    [s EXCEPT !.absolutePosition =
        UpdateTransform(s.parent, s.children, s.position, @, TheScene)]

\* DrawPass with the nodes drawn at the positions they had before the transform pass.
DrawPassBeforeTransform(before, s) ==
    [s EXCEPT !.frame =
        <<RenderCall(s, "clearScreen", NoNode)>>
        \o RenderNode(before, TheScene)
        \o <<RenderCall(s, "updateTransform", TheScene)>>
        \o <<RenderCall(s, "flush", NoNode)>>]

\* renderScene as the terminal and the nodes see it: clearScreen, the transform pass
\* (which left the state s), _renderNode from the root, flush.
DrawPass(before, s) ==
    [s EXCEPT !.frame =
        <<RenderCall(s, "clearScreen", NoNode)>>
        \o <<RenderCall(s, "updateTransform", TheScene)>>
        \o RenderNode(s, TheScene)
        \o <<RenderCall(s, "flush", NoNode)>>]

\* What the draw routines of a pass read of the focus: the flags of the components (the
\* color of a background, the visibility of a cursor), beside the scene's reference.
Observed(s) ==
    [s EXCEPT !.passes =
        Append(@, [focused |-> s.focusedComponent,
                   flagged |-> {c \in Components : s.isFocused[c]}])]

\* Renderer.renderScene.
RenderScene(s) == DrawPass(s, Observed(TransformPass(s)))

\* "Trigger a scene re-render if possible".
RenderIfInScene(s, n) ==
    IF FindScene(s.parent, n) # NoNode THEN RenderScene(s) ELSE s

(***************************************************************************)
(* Button and TextInput: onFocus, onBlur, handleKey.                       *)
(***************************************************************************)
\* TextInput._updateTextDisplay: moves the cursor node to column 1 + cursorPos.
UpdateTextDisplay(s, c) ==
    [s EXCEPT !.position =
        [@ EXCEPT ![cursor[c]] = <<1 + s.cursorPos[c], ComponentHeight \div 2>>]]

OnFocus(s, c) ==
    IF kind[c] = "TextInput"
    THEN RenderIfInScene(
             UpdateTextDisplay([s EXCEPT !.isFocused = [@ EXCEPT ![c] = TRUE],
                                         !.visible = [@ EXCEPT ![cursor[c]] = TRUE]], c), c)
    ELSE RenderIfInScene([s EXCEPT !.isFocused = [@ EXCEPT ![c] = TRUE]], c)

\* OnBlur with the isFocused flag left as it was.
OnBlurKeepsFlag(s, c) ==
    IF kind[c] = "TextInput"
    THEN RenderIfInScene(
             UpdateTextDisplay([s EXCEPT !.visible = [@ EXCEPT ![cursor[c]] = FALSE]], c), c)
    ELSE RenderIfInScene(s, c)

\* Button.onBlur, TextInput.onBlur
OnBlur(s, c) ==
    IF kind[c] = "TextInput"
    THEN RenderIfInScene(
             UpdateTextDisplay([s EXCEPT !.isFocused = [@ EXCEPT ![c] = FALSE],
                                         !.visible = [@ EXCEPT ![cursor[c]] = FALSE]], c), c)
    ELSE RenderIfInScene([s EXCEPT !.isFocused = [@ EXCEPT ![c] = FALSE]], c)

\* A callback is invoked: the log grows by the callback, the object it belongs to, the
\* key passed along and the value of the text input at that moment.
Invoked(s, fn, n, key) ==
    [s EXCEPT !.calls =
        Append(@, [fn |-> fn, node |-> n, key |-> key,
                   value |-> IF n \in TextInputs THEN s.value[n] ELSE <<>>])]

\* HandlerFor with the lookup finding nothing.
HandlerForNothing(s, c, key) == "none"

\* The handler registered on the text input for the key: "none", or what it returns.
HandlerFor(s, c, key) ==
    IF key \in InputHandlerKeys THEN s.inputHandlers[c][key] ELSE "none"

\* ButtonClicks with the isFocused test left out.
ButtonClicksUnfocused(s, c, key) ==
    key \in {"enter", " ", "space"} /\ c \in onClick

\* The condition of Button.handleKey.
ButtonClicks(s, c, key) ==
    s.isFocused[c] /\ key \in {"enter", " ", "space"} /\ c \in onClick

\* Button.handleKey: the new state and the returned boolean.
ButtonHandleKey(s, c, key) ==
    IF ButtonClicks(s, c, key)
    THEN [st |-> RenderIfInScene(Invoked(s, "onClick", c, key), c), ret |-> TRUE]
    ELSE [st |-> s, ret |-> FALSE]

\* String.slice(0, i) and String.slice(i) on the value, for a 0-based i.
SliceTo(v, i) == SubSeq(v, 1, i)

SliceFrom(v, i) == SubSeq(v, i + 1, Len(v))

\* InsertAt with the character put at the end of the value.
InsertAtEnd(v, cp, key) == v \o <<key>>

\* value.slice(0, cursorPos) + key + value.slice(cursorPos)
InsertAt(v, cp, key) == SliceTo(v, cp) \o <<key>> \o SliceFrom(v, cp)

\* HasRoom with no limit on the length of the value.
HasRoomAlways(v) == TRUE

\* this.value.length < this.size[0] - 3
HasRoom(v) == Len(v) < InputWidth - 3

\* TextInput.handleKey, from "let handled = false" on: the built-in editing keys.
TextInputEdit(s, c, key) ==
    LET v == s.value[c]
        cp == s.cursorPos[c]
        edited ==
            CASE key = "backspace" /\ cp > 0 ->
                   [s EXCEPT !.value = [@ EXCEPT ![c] = SliceTo(v, cp - 1) \o SliceFrom(v, cp)],
                             !.cursorPos = [@ EXCEPT ![c] = cp - 1]]
              [] key = "delete" /\ cp < Len(v) ->
                   [s EXCEPT !.value = [@ EXCEPT ![c] = SliceTo(v, cp) \o SliceFrom(v, cp + 1)]]
              [] key = "left" /\ cp > 0 ->
                   [s EXCEPT !.cursorPos = [@ EXCEPT ![c] = cp - 1]]
              [] key = "right" /\ cp < Len(v) ->
                   [s EXCEPT !.cursorPos = [@ EXCEPT ![c] = cp + 1]]
              [] key = "home" ->
                   [s EXCEPT !.cursorPos = [@ EXCEPT ![c] = 0]]
              [] key = "end" ->
                   [s EXCEPT !.cursorPos = [@ EXCEPT ![c] = Len(v)]]
              [] Len(key) = 1 /\ HasRoom(v) ->
                   [s EXCEPT !.value = [@ EXCEPT ![c] = InsertAt(v, cp, key)],
                             !.cursorPos = [@ EXCEPT ![c] = cp + 1]]
              [] OTHER -> s
        handled ==
            \/ key = "backspace" /\ cp > 0
            \/ key = "delete" /\ cp < Len(v)
            \/ key = "left" /\ cp > 0
            \/ key = "right" /\ cp < Len(v)
            \/ key \in {"home", "end"}
            \/ Len(key) = 1 /\ HasRoom(v)
    IN  IF handled
        THEN [st |-> RenderIfInScene(UpdateTextDisplay(edited, c), c), ret |-> TRUE]
        ELSE [st |-> s, ret |-> FALSE]

\* TextInput.handleKey when the registered handler did not return true: the handler, if
\* there is one, has been called; the built-in editing follows.
AfterHandler(s, c, key) ==
    IF HandlerFor(s, c, key) = "none" THEN s ELSE Invoked(s, "keyboardHandler", c, key)

\* TextInput.handleKey: the new state and the returned boolean.
TextInputHandleKey(s, c, key) ==
    IF ~s.isFocused[c] THEN [st |-> s, ret |-> FALSE]
    ELSE IF HandlerFor(s, c, key) = "handles"
    THEN [st |-> RenderIfInScene(Invoked(s, "keyboardHandler", c, key), c), ret |-> TRUE]
    ELSE TextInputEdit(AfterHandler(s, c, key), c, key)

\* focusedComponent.handleKey(key), dispatched on the component's class.
ComponentHandleKey(s, c, key) ==
    IF kind[c] = "TextInput" THEN TextInputHandleKey(s, c, key) ELSE ButtonHandleKey(s, c, key)

(***************************************************************************)
(* Scene: the focus registry, setFocus, addChild, removeChild.             *)
(***************************************************************************)
\* 'isFocused' in child && typeof child.onFocus === 'function'
IsFocusable(n) == kind[n] \in {"Button", "TextInput"}

\* CompareTabIndex with an undefined tab index read as 0 instead of Infinity.
CompareTabIndexUndefinedAsZero(ta, tb) ==
    (IF ta = NoIndex THEN 0 ELSE ta) - (IF tb = NoIndex THEN 0 ELSE tb)

\* The comparator of sortFocusableComponents: aIndex - bIndex with undefined read as
\* Infinity.  Infinity - Infinity is NaN, which Array.prototype.sort treats as 0.
CompareTabIndex(ta, tb) ==
    IF ta = NoIndex /\ tb = NoIndex THEN 0
    ELSE IF ta = NoIndex THEN 1
    ELSE IF tb = NoIndex THEN -1
    ELSE ta - tb

\* One insertion step of the (stable) sort: x goes before the first element that the
\* comparator orders after it.
SortInsert(sorted, x, ti) ==
    LET later == {i \in 1..Len(sorted) : CompareTabIndex(ti[sorted[i]], ti[x]) > 0}
        at == IF later = {} THEN Len(sorted) + 1
              ELSE CHOOSE i \in later : \A j \in later : i <= j
    IN  SubSeq(sorted, 1, at - 1) \o <<x>> \o SubSeq(sorted, at, Len(sorted))

RECURSIVE SortFrom(_, _, _, _)
SortFrom(seq, i, sorted, ti) ==
    IF i > Len(seq) THEN sorted ELSE SortFrom(seq, i + 1, SortInsert(sorted, seq[i], ti), ti)

\* Scene.sortFocusableComponents: Array.prototype.sort, which is stable.
SortFocusableComponents(s) ==
    [s EXCEPT !.focusableComponents = SortFrom(@, 1, <<>>, s.tabIndex)]

\* The scene calls onFocus or onBlur of component c: the log grows by the callback, the
\* component and the scene's focused reference at that moment.
Notified(s, fn, c) ==
    [s EXCEPT !.calls =
        Append(@, [fn |-> fn, node |-> c, focused |-> s.focusedComponent])]

\* setFocus, first step: the focused component, if any, is blurred (also when it is the
\* new one).
BlurFocused(s) ==
    IF s.focusedComponent # NoNode
    THEN OnBlur(Notified(s, "onBlur", s.focusedComponent), s.focusedComponent)
    ELSE s

\* FocusOn with the reference set and onFocus not called.
FocusOnReferenceOnly(s, c) == [s EXCEPT !.focusedComponent = c]

\* setFocus, second step: the reference is set and the new component, if any, focused.
FocusOn(s, c) ==
    IF c # NoNode
    THEN OnFocus(Notified([s EXCEPT !.focusedComponent = c], "onFocus", c), c)
    ELSE [s EXCEPT !.focusedComponent = c]

\* SetFocus without the blur of the component that had the focus.
SetFocusWithoutBlur(s, c) == FocusOn(s, c)

\* Scene.setFocus.
SetFocus(s, c) == FocusOn(BlurFocused(s), c)

\* The test of Scene.removeChild that decides whether focus is moved.
WasFocused(s, c) == s.focusedComponent # NoNode /\ s.focusedComponent = c

\* Scene.removeChild after a successful super.removeChild: the child leaves the registry,
\* which is sorted again.
Unregister(s, c) ==
    IF IndexOf(s.focusableComponents, c) > 0
    THEN SortFocusableComponents(
             [s EXCEPT !.focusableComponents = Splice(@, IndexOf(@, c))])
    ELSE s

\* Scene.removeChild when the removed child was focused: focus goes to the first
\* registered component, or to none.
FocusFirstOrNone(s) ==
    SetFocus(s, IF Len(s.focusableComponents) > 0 THEN s.focusableComponents[1] ELSE NoNode)

\* Scene.removeChild.
SceneRemoveChild(s, c) ==
    IF IndexOf(s.children[TheScene], c) = 0 THEN NodeRemoveChild(s, TheScene, c)
    ELSE IF WasFocused(s, c)
    THEN FocusFirstOrNone(Unregister(NodeRemoveChild(s, TheScene, c), c))
    ELSE Unregister(NodeRemoveChild(s, TheScene, c), c)

\* parent.removeChild(child), dispatched on the parent's class.
RemoveChild(s, p, c) ==
    IF kind[p] = "Scene" THEN SceneRemoveChild(s, c) ELSE NodeRemoveChild(s, p, c)

\* DetachFromParent that leaves the child in its old parent's list.
DetachFromParentSkipped(s, c) == s

\* The first step of Node.addChild: a child that has a parent is removed from it.
DetachFromParent(s, c) ==
    IF s.parent[c] # NoNode THEN RemoveChild(s, s.parent[c], c) ELSE s

\* Node.addChild.
NodeAddChild(s, p, c) ==
    [DetachFromParent(s, c) EXCEPT !.parent = [@ EXCEPT ![c] = p],
                                   !.children = [@ EXCEPT ![p] = Append(@, c)]]

\* Scene.addChild on a focusable child, once registered: when nothing is focused, focus
\* goes to the first registered component.
FocusFirstIfNone(s) ==
    IF s.focusedComponent = NoNode THEN SetFocus(s, s.focusableComponents[1]) ELSE s

\* Scene.addChild after super.addChild: a focusable child is pushed onto the registry,
\* which is sorted again.
Register(s, c) ==
    IF IsFocusable(c)
    THEN FocusFirstIfNone(
             SortFocusableComponents([s EXCEPT !.focusableComponents = Append(@, c)]))
    ELSE s

\* Scene.addChild.
SceneAddChild(s, c) == Register(NodeAddChild(s, TheScene, c), c)

\* parent.addChild(child), dispatched on the parent's class.
AddChild(s, p, c) ==
    IF kind[p] = "Scene" THEN SceneAddChild(s, c) ELSE NodeAddChild(s, p, c)

(***************************************************************************)
(* Scene.handleKey.                                                        *)
(***************************************************************************)
\* JavaScript's %, for a non-negative or negative dividend; x % 0 is NaN, returned as
\* an index that no array has.
Rem(a, b) ==
    IF b = 0 THEN -1
    ELSE IF a >= 0 THEN a % b
    ELSE 0 - ((0 - a) % b)

\* array[i] for a 0-based i; undefined (NoNode) outside the array.
At(seq, i) == IF i \in 0..(Len(seq) - 1) THEN seq[i + 1] ELSE NoNode

\* HasTabbable with the comparison off by one: tabbable.length >= 0.
HasTabbableOrEmpty(tabbable) == Len(tabbable) >= 0

\* The guard of the tab branch: tabbable.length > 0.
HasTabbable(tabbable) == Len(tabbable) > 0

\* The component the tab branch focuses: one position after (tab) or before (shift_tab)
\* the focused one in tabbable, wrapping; currentIndex is -1 when nothing is focused or
\* the focused component is not in tabbable.
TabTarget(tabbable, focused, key) ==
    LET currentIndex == IF focused # NoNode THEN IndexOf(tabbable, focused) - 1 ELSE -1
        nextIndex == IF key = "tab"
                     THEN Rem(currentIndex + 1, Len(tabbable))
                     ELSE Rem(currentIndex - 1 + Len(tabbable), Len(tabbable))
    IN  At(tabbable, nextIndex)

Abs(x) == IF x < 0 THEN 0 - x ELSE x

\* isCandidate of the arrow branch: the component lies strictly in the direction of key.
IsCandidate(key, currentPos, componentPos) ==
    \/ key = "up" /\ componentPos[2] < currentPos[2]
    \/ key = "down" /\ componentPos[2] > currentPos[2]
    \/ key = "left" /\ componentPos[1] < currentPos[1]
    \/ key = "right" /\ componentPos[1] > currentPos[1]

\* distance of the arrow branch, for a candidate.
Distance(key, currentPos, componentPos) ==
    CASE key = "up" -> currentPos[2] - componentPos[2] + Abs(currentPos[1] - componentPos[1])
      [] key = "down" -> componentPos[2] - currentPos[2] + Abs(currentPos[1] - componentPos[1])
      [] key = "left" -> currentPos[1] - componentPos[1] + Abs(currentPos[2] - componentPos[2])
      [] key = "right" -> componentPos[1] - currentPos[1] + Abs(currentPos[2] - componentPos[2])

RECURSIVE NearestFrom(_, _, _, _, _, _)
\* The scan of the arrow branch over tabbable from index i on; nearest = NoNode stands
\* for minDistance = Infinity.
NearestFrom(s, tabbable, i, key, nearest, minDistance) ==
    IF i > Len(tabbable) THEN nearest
    ELSE LET component == tabbable[i]
             currentPos == s.absolutePosition[s.focusedComponent]
             componentPos == s.absolutePosition[component]
             better == /\ component # s.focusedComponent
                       /\ IsCandidate(key, currentPos, componentPos)
                       /\ \/ nearest = NoNode
                          \/ Distance(key, currentPos, componentPos) < minDistance
         IN  IF better
             THEN NearestFrom(s, tabbable, i + 1, key, component,
                              Distance(key, currentPos, componentPos))
             ELSE NearestFrom(s, tabbable, i + 1, key, nearest, minDistance)

\* nearestComponent of the arrow branch.
NearestComponent(s, key) ==
    NearestFrom(s, GetTabbableChildren(s, TheScene), 1, key, NoNode, 0)

\* The last stage of handleKey: the handler registered on the scene for the key.
Fallback(s, key) ==
    IF key \in s.keyboardHandlers
    THEN [st |-> Invoked(s, "sceneHandler", TheScene, key), ret |-> TRUE]
    ELSE [st |-> s, ret |-> FALSE]

\* The navigation stage of handleKey and what follows it.
Navigate(s, key) ==
    LET tabbable == GetTabbableChildren(s, TheScene)
    IN  IF key \in {"tab", "shift_tab"}
        THEN IF HasTabbable(tabbable)
             THEN [st |-> SetFocus(s, TabTarget(tabbable, s.focusedComponent, key)), ret |-> TRUE]
             ELSE Fallback(s, key)
        ELSE IF key \in {"up", "down", "left", "right"}
                /\ s.focusedComponent # NoNode
                /\ NearestComponent(s, key) # NoNode
        THEN [st |-> SetFocus(s, NearestComponent(s, key)), ret |-> TRUE]
        ELSE Fallback(s, key)

\* The first stage of handleKey: the focused component is offered the key.
OfferToFocused(s, key) ==
    IF s.focusedComponent # NoNode
    THEN ComponentHandleKey(s, s.focusedComponent, key)
    ELSE [st |-> s, ret |-> FALSE]

\* UnlessHandled with the later stages run whatever the component returned.
AlwaysNavigate(first, key) == Navigate(first.st, key)

\* handleKey after the first stage: done when the component handled the key.
UnlessHandled(first, key) == IF first.ret THEN first ELSE Navigate(first.st, key)

\* Scene.handleKey: the new state and the returned boolean.
SceneHandleKey(s, key) == UnlessHandled(OfferToFocused(s, key), key)

(***************************************************************************)
(* TabContainer: addTab, setActiveTab.                                     *)
(***************************************************************************)
Max(a, b) == IF a > b THEN a ELSE b

Min(a, b) == IF a < b THEN a ELSE b

\* tabWidth of addTab when n tabs exist.
TabWidth(n) == Max(10, Min(20, ContainerWidth \div (n + 1)))

\* A node as its constructor leaves it: absolutePosition is the position passed in.
NewNode(s, n, pos) ==
    [s EXCEPT !.position = [@ EXCEPT ![n] = pos],
              !.absolutePosition = [@ EXCEPT ![n] = pos]]

\* addTab: the tab button of tab n + 1 is created, then its background, which is added
\* to the button.
AddTabBg(s, n) ==
    AddChild(NewNode(NewNode(s, TabButton[n + 1], <<n * TabWidth(n), 0>>),
                     TabBg[n + 1], <<0, 0>>),
             TabButton[n + 1], TabBg[n + 1])

\* addTab: the title is created and added to the button.
AddTabTitle(s, n) ==
    AddChild(NewNode(s, TabTitle[n + 1],
                     <<Max(1, (TabWidth(n) - TitleLen) \div 2), TabHeight \div 2>>),
             TabButton[n + 1], TabTitle[n + 1])

\* addTab: the button is added to the tab bar and the tab is pushed onto this.tabs.
PushTab(s, t, content, n) ==
    [AddChild(s, tabBar[t], TabButton[n + 1]) EXCEPT !.tabs = Append(@, content)]

\* addTab: the content of the tab at the active index is added to the content area.
AddContentIfActive(s, t, content, n) ==
    IF n = s.activeTabIndex THEN AddChild(s, contentArea[t], content) ELSE s

\* TabContainer.addTab(title, content).
AddTab(s, t, content) ==
    AddContentIfActive(
        PushTab(AddTabTitle(AddTabBg(s, Len(s.tabs)), Len(s.tabs)), t, content, Len(s.tabs)),
        t, content, Len(s.tabs))

\* RemoveActiveContent with the old content left in the content area.
RemoveActiveContentSkipped(s, t) == s

\* setActiveTab: the content of the tab that was active leaves the content area.
RemoveActiveContent(s, t) ==
    IF s.activeTabIndex < Len(s.tabs)
    THEN RemoveChild(s, contentArea[t], s.tabs[s.activeTabIndex + 1])
    ELSE s

\* setActiveTab: the index is set and the content of the new tab is added.
AddActiveContent(s, t, index) ==
    AddChild([s EXCEPT !.activeTabIndex = index], contentArea[t], s.tabs[index + 1])

\* TabContainer.setActiveTab(index), index 0-based.
SetActiveTab(s, t, index) ==
    IF index >= 0 /\ index < Len(s.tabs)
    THEN RenderIfInScene(AddActiveContent(RemoveActiveContent(s, t), t, index), t)
    ELSE s

\* (this.activeTabIndex + 1) % this.tabs.length, which is NaN (here -1, as far out of
\* range) when there is no tab.
NextTab(s) ==
    IF Len(s.tabs) = 0 THEN -1 ELSE (s.activeTabIndex + 1) % Len(s.tabs)

\* TabContainer.handleKey, first part: the content of the active tab, when it has a
\* handleKey method, is given the key.
OfferToContent(s, t, key) ==
    IF s.activeTabIndex < Len(s.tabs) /\ IsFocusable(s.tabs[s.activeTabIndex + 1])
    THEN ComponentHandleKey(s, s.tabs[s.activeTabIndex + 1], key)
    ELSE [st |-> s, ret |-> FALSE]

\* TabContainer.handleKey, second part: unless the content handled the key, 'tab' makes
\* the next tab the active one.
CycleUnlessHandled(r, t, key) ==
    IF r.ret THEN r
    ELSE IF key = "tab" THEN [st |-> SetActiveTab(r.st, t, NextTab(r.st)), ret |-> TRUE]
    ELSE [st |-> r.st, ret |-> FALSE]

\* TabContainer.handleKey
TabContainerHandleKey(s, t, key) == CycleUnlessHandled(OfferToContent(s, t, key), t, key)

(***************************************************************************)
(* Initial state: every object as its constructor leaves it.               *)
(***************************************************************************)
InitialChildren ==
    [n \in Nodes |->
        CASE n = TheScene -> <<"S.bg">>
          [] n = "B1" -> <<"B1.bg", "B1.text">>
          [] n = "B2" -> <<"B2.bg", "B2.text">>
          [] n = "I1" -> <<"I1.bg", "I1.text", "I1.cursor">>
          [] n = "T" -> <<"T.bg", "T.bar", "T.ca">>
          [] OTHER -> <<>>]

InitialParent ==
    [n \in Nodes |->
        IF \E p \in Nodes : \E i \in 1..Len(InitialChildren[p]) : InitialChildren[p][i] = n
        THEN CHOOSE p \in Nodes : \E i \in 1..Len(InitialChildren[p]) : InitialChildren[p][i] = n
        ELSE NoNode]

\* The positions the constructors give to the nodes they create.
InternalPosition(n) ==
    CASE n \in {"B1.text", "B2.text"} ->
           <<Max(1, ((ButtonTextLen + 4) - ButtonTextLen) \div 2), ComponentHeight \div 2>>
      [] n = "I1.text" -> <<1, ComponentHeight \div 2>>
      [] n = "I1.cursor" -> <<1, ComponentHeight \div 2>>
      [] n = "T.ca" -> <<0, TabHeight>>
      [] OTHER -> <<0, 0>>

\* The positions passed to the constructors of the components of a scene.
SceneLayout ==
    [n \in {TheScene, "G1", "B1", "B2", "I1", "T"} |->
        CASE n = TheScene -> <<0, 0>>
          [] n = "G1" -> <<1, 1>>
          [] n = "B1" -> <<0, 0>>
          [] n = "B2" -> <<4, 0>>
          [] n = "I1" -> <<0, 4>>
          [] n = "T" -> <<0, 6>>]

\* The tab indexes given to the components.
TabIndexChoices ==
    {[c \in Components |-> CASE c = "B1" -> NoIndex [] c = "B2" -> 1 [] c = "I1" -> 0],
     [c \in Components |-> CASE c = "B1" -> NoIndex [] c = "B2" -> NoIndex [] c = "I1" -> 0],
     [c \in Components |-> CASE c = "B1" -> 1 [] c = "B2" -> 1 [] c = "I1" -> NoIndex]}

\* The keyboard handler after its constructor, on a terminal in its normal mode.
NotStarted ==
    [running |-> FALSE, originalRawOptions |-> FALSE, inputLoopPromise |-> "null",
     raw |-> FALSE, pc |-> "idle", reads |-> 0, restoreFailed |-> FALSE,
     stops |-> <<>>, queue |-> <<>>]

InitBuilt(layout, ti, kitty) ==
    /\ parent = InitialParent
    /\ children = InitialChildren
    /\ position = [n \in Nodes |-> IF n \in DOMAIN layout THEN layout[n] ELSE InternalPosition(n)]
    /\ absolutePosition = position
    /\ visible = [n \in Nodes |-> n # "I1.cursor"]
    /\ isFocused = [c \in Components |-> FALSE]
    /\ value = [c \in TextInputs |-> <<>>]
    /\ cursorPos = [c \in TextInputs |-> 0]
    /\ tabs = <<>>
    /\ activeTabIndex = 0
    /\ focusedComponent = NoNode
    /\ focusableComponents = <<>>
    /\ keyboardHandlers = {}
    /\ tabIndex = ti
    /\ inputHandlers = [c \in TextInputs |-> [k \in InputHandlerKeys |-> "none"]]
    /\ frame = <<>>
    /\ calls = <<>>
    /\ passes = <<>>
    /\ globalHandlers = [k \in GlobalKeys |-> <<>>]
    /\ currentInput = <<>>
    /\ chunk = <<>>
    /\ tokens = <<>>
    /\ typed = [ok |-> TRUE, keys |-> <<>>, handled |-> FALSE]
    /\ previous = <<>>
    /\ loop = NotStarted
    /\ rect = [x |-> 0, y |-> 0, w |-> 1, h |-> 1, fill |-> TRUE, color |-> <<255, 255, 255>>]
    /\ wire = <<>>
    /\ images = [kitty |-> kitty, source |-> "path", pending |-> <<>>]
    /\ last = [op |-> "new", node |-> NoNode, target |-> NoNode, key |-> "", ret |-> FALSE,
               before |-> NoNode]
    /\ insertionOrder = <<>>
    /\ tabRun = [start |-> NoNode, n |-> 0]
    /\ nops = 0

\* The state after construction with the KittyUtil of src/lib/kitty.ts, which
\* components.ts imports.
InitWith(layout, ti) == InitBuilt(layout, ti, "kitty.ts")

Init == \E ti \in TabIndexChoices : InitWith(SceneLayout, ti)

\* The nodes of the tree checks and the offsets their constructors are given.
TreeNodes == {"G1", "B1", "I1"}

\* The offsets given to the three nodes: each rotation of three distinct offsets.
TreeLayouts ==
    {[n \in TreeNodes |-> CASE n = "G1" -> <<-1, 2>> [] n = "B1" -> <<2, 0>> [] n = "I1" -> <<0, -1>>],
     [n \in TreeNodes |-> CASE n = "G1" -> <<2, 0>> [] n = "B1" -> <<0, -1>> [] n = "I1" -> <<-1, 2>>],
     [n \in TreeNodes |-> CASE n = "G1" -> <<0, -1>> [] n = "B1" -> <<-1, 2>> [] n = "I1" -> <<2, 0>>]}

InitTree ==
    \E layout \in TreeLayouts :
        InitWith(layout, [c \in Components |-> NoIndex])

(***************************************************************************)
(* History kept for the checks.                                            *)
(***************************************************************************)
Range(seq) == {seq[i] : i \in 1..Len(seq)}

RECURSIVE Reach(_, _, _)
\* The nodes reachable from the nodes of frontier along the child lists.
Reach(ch, frontier, seen) ==
    IF frontier = {} THEN seen
    ELSE LET next == UNION {Range(ch[n]) : n \in frontier} \ (seen \cup frontier)
         IN  Reach(ch, next, seen \cup frontier)

\* The nodes of the subtree rooted at r.
Subtree(ch, r) == Reach(ch, {r}, {})

\* The longest sequence of operations that is explored.
MaxOps == 4

\* The longest sequence of operations that ends with a key given to a component.
MaxKeyOps == 5

\* The longest run of 'tab' dispatches that is counted.
MaxTabRun == 4

NoRun == [start |-> NoNode, n |-> 0]

\* The registry members in registration order, after an operation that left the registry
\* reg and registered the component added (NoNode: none).
Registered(reg, added) ==
    LET kept == SelectSeq(insertionOrder, LAMBDA x : x # added /\ x \in Range(reg))
    IN  IF added # NoNode THEN Append(kept, added) ELSE kept

\* A state-changing call takes effect: s is the state it leaves, added the component it
\* registered.
Apply(s, added) ==
    /\ Commit(s)
    /\ insertionOrder' = Registered(s.focusableComponents, added)

Record(op, node, target, key, ret) ==
    /\ nops' = nops + 1
    /\ last' = [op |-> op, node |-> node, target |-> target, key |-> key, ret |-> ret,
                before |-> focusedComponent]

(***************************************************************************)
(* Operations on a scene.                                                  *)
(***************************************************************************)
\* The (parent, child) pairs that callers pass to addChild and removeChild.
Attachments ==
    ({TheScene} \X {"G1", "B1", "B2", "I1", "T"}) \cup ({"G1"} \X {"B1", "B2", "I1"})

DoAddChild(p, c) ==
    /\ nops < MaxOps
    /\ p \notin Subtree(children, c)
    /\ Apply(AddChild(St, p, c), IF p = TheScene /\ IsFocusable(c) THEN c ELSE NoNode)
    /\ Record("addChild", p, c, "", TRUE)
    /\ tabRun' = NoRun
    /\ UNCHANGED inputVars

DoRemoveChild(p, c) ==
    /\ nops < MaxOps
    /\ Apply(RemoveChild(St, p, c), NoNode)
    /\ Record("removeChild", p, c, "", IndexOf(children[p], c) > 0)
    /\ tabRun' = NoRun
    /\ UNCHANGED inputVars

DoSetFocus(c) ==
    /\ nops < MaxOps
    /\ Commit(SetFocus(St, c))
    /\ Record("setFocus", TheScene, c, "", TRUE)
    /\ UNCHANGED insertionOrder
    /\ tabRun' = NoRun
    /\ UNCHANGED inputVars

\* The built-in editing of the text input c accepts the key.
Edits(c, key) ==
    /\ c \in TextInputs
    /\ isFocused[c]
    /\ HandlerFor(St, c, key) # "handles"
    /\ TextInputEdit(St, c, key).ret

\* A single-character key is given to the focused text input c, which has room left.
Typing(c, key) ==
    /\ c \in TextInputs
    /\ isFocused[c]
    /\ Len(key) = 1
    /\ HasRoom(value[c])

\* The characters typed so far, after the key has been given to component c: every
\* character given to the focused input with room left, with a note of whether a
\* registered handler handled one of them; any other edit ends the record.
TypedAfter(c, key) ==
    IF typed.ok /\ Typing(c, key)
    THEN [typed EXCEPT !.keys = Append(@, key),
                       !.handled = @ \/ HandlerFor(St, c, key) = "handles"]
    ELSE IF Edits(c, key) THEN [ok |-> FALSE, keys |-> <<>>, handled |-> FALSE]
    ELSE typed

\* A handleKey call takes effect: r holds the state it leaves and its return value.
Dispatched(r, key) ==
    /\ Commit(r.st)
    /\ Record("handleKey", TheScene, NoNode, key, r.ret)

DoHandleKey(key) ==
    /\ nops < MaxOps
    /\ Dispatched(SceneHandleKey(St, key), key)
    /\ UNCHANGED insertionOrder
    /\ tabRun' = IF key # "tab" THEN NoRun
                 ELSE IF tabRun.n = 0 THEN [start |-> focusedComponent, n |-> 1]
                 ELSE [tabRun EXCEPT !.n = Min(@ + 1, MaxTabRun)]
    /\ typed' = TypedAfter(focusedComponent, key)
    /\ UNCHANGED <<managerVars, drawVars, loopVars>>

DoRegisterKeyboardHandler(key) ==
    /\ nops < MaxOps
    /\ Commit([St EXCEPT !.keyboardHandlers = @ \cup {key}])
    /\ Record("registerKeyboardHandler", TheScene, NoNode, key, TRUE)
    /\ tabRun' = NoRun
    /\ UNCHANGED <<insertionOrder, inputVars>>

DoAddTab(content) ==
    /\ nops < MaxOps
    /\ content \notin Range(tabs)
    /\ Len(tabs) < Len(TabButton)
    /\ "T" \notin Subtree(children, content)
    /\ Apply(AddTab(St, "T", content), NoNode)
    /\ Record("addTab", "T", content, "", TRUE)
    /\ tabRun' = NoRun
    /\ UNCHANGED inputVars

DoSetActiveTab(index) ==
    /\ nops < MaxOps
    /\ index < Len(tabs) => "T" \notin Subtree(children, tabs[index + 1])
    /\ Apply(SetActiveTab(St, "T", index), NoNode)
    /\ Record("setActiveTab", "T", NoNode, "", index < Len(tabs))
    /\ tabRun' = NoRun
    /\ UNCHANGED inputVars

DoRenderScene ==
    /\ nops < MaxOps
    /\ Commit(RenderScene(St))
    /\ Record("renderScene", TheScene, NoNode, "", TRUE)
    /\ UNCHANGED insertionOrder
    /\ tabRun' = NoRun
    /\ UNCHANGED inputVars

Next ==
    \/ \E a \in Attachments : DoAddChild(a[1], a[2])
    \/ \E a \in Attachments : DoRemoveChild(a[1], a[2])
    \/ \E c \in Components \cup {NoNode} : DoSetFocus(c)
    \/ \E key \in Keys : DoHandleKey(key)
    \/ \E key \in HandlerKeys : DoRegisterKeyboardHandler(key)
    \/ \E content \in TabContents : DoAddTab(content)
    \/ \E index \in 0..(Len(TabButton) - 1) : DoSetActiveTab(index)
    \/ DoRenderScene

Spec == Init /\ [][Next]_vars

\* Only addChild and removeChild are called, on the scene and on the group.
NextAttach ==
    \/ \E a \in Attachments : DoAddChild(a[1], a[2])
    \/ \E a \in Attachments : DoRemoveChild(a[1], a[2])

SpecAttach == Init /\ [][NextAttach]_vars

(***************************************************************************)
(* Keys given to the components: handleKey is called on a component        *)
(* directly or through the scene that has it focused; handlers are         *)
(* registered on the text input and on the scene.                          *)
(***************************************************************************)
\* Keys passed to the handleKey of a component.
TypedKeys ==
    {"enter", " ", "space", "backspace", "delete", "left", "right", "home", "end", "tab"}
        \cup Chars

\* A handleKey call on component c takes effect.
DispatchedTo(r, c, key) ==
    /\ Commit(r.st)
    /\ Record("component.handleKey", c, NoNode, key, r.ret)

\* component.handleKey(key)
KeysHandleKey(c, key) ==
    /\ nops < MaxKeyOps
    /\ DispatchedTo(ComponentHandleKey(St, c, key), c, key)
    /\ typed' = TypedAfter(c, key)
    /\ tabRun' = NoRun
    /\ UNCHANGED <<insertionOrder, managerVars, drawVars, loopVars>>

\* textInput.registerKeyboardHandler(key, handler), for a handler that returns true
\* ("handles") or false ("passes").
KeysRegisterHandler(c, key, returns) ==
    /\ nops < MaxOps
    /\ Commit([St EXCEPT !.inputHandlers = [@ EXCEPT ![c] = [@ EXCEPT ![key] = returns]]])
    /\ Record("textInput.registerKeyboardHandler", c, NoNode, key, TRUE)
    /\ tabRun' = NoRun
    /\ UNCHANGED <<insertionOrder, inputVars>>

NextKeys ==
    \/ \E c \in Components : DoSetFocus(c)
    \/ \E c \in Components, key \in TypedKeys : KeysHandleKey(c, key)
    \/ \E key \in TypedKeys : DoHandleKey(key)
    \/ \E c \in TextInputs, key \in InputHandlerKeys, returns \in {"handles", "passes"} :
          KeysRegisterHandler(c, key, returns)
    \/ \E key \in {"enter"} : DoRegisterKeyboardHandler(key)

SpecKeys == Init /\ [][NextKeys]_vars

(***************************************************************************)
(* Operations on a tab container: addTab, setActiveTab with any index,     *)
(* handleKey, on a container inside or outside the scene, whose contents   *)
(* may have the focus.                                                     *)
(***************************************************************************)
\* The nodes passed as content, the indexes passed to setActiveTab, the keys.
TabsContents == {"G1", "B1", "I1"}
TabsIndexes == -1..Len(TabButton)
TabsKeys == {"tab", "enter", "a"}

\* tabContainer.setActiveTab(index); the result recorded is whether the index was in range.
TabsSetActiveTab(index) ==
    /\ nops < MaxOps
    /\ Apply(SetActiveTab(St, "T", index), NoNode)
    /\ Record("setActiveTab", "T", NoNode, "", index >= 0 /\ index < Len(tabs))
    /\ tabRun' = NoRun
    /\ UNCHANGED inputVars

\* A handleKey call on the tab container takes effect.
TabsDispatched(r, key) ==
    /\ Apply(r.st, NoNode)
    /\ Record("tabContainer.handleKey", "T", NoNode, key, r.ret)

\* tabContainer.handleKey(key); the run of 'tab' keys starts at the tab then active.
TabsHandleKey(key) ==
    /\ nops < MaxOps
    /\ TabsDispatched(TabContainerHandleKey(St, "T", key), key)
    /\ tabRun' = IF key # "tab" THEN NoRun
                 ELSE IF tabRun.n = 0 THEN [start |-> activeTabIndex, n |-> 1]
                 ELSE [tabRun EXCEPT !.n = Min(@ + 1, MaxTabRun)]
    /\ UNCHANGED inputVars

NextTabs ==
    \/ \E content \in TabsContents : DoAddTab(content)
    \/ \E index \in TabsIndexes : TabsSetActiveTab(index)
    \/ \E key \in TabsKeys : TabsHandleKey(key)
    \/ \E c \in TabsContents \cap Components : DoSetFocus(c)
    \/ DoAddChild(TheScene, "T")

SpecTabs == Init /\ [][NextTabs]_vars

(***************************************************************************)
(* Operations on a tree of plain nodes: any node may be added to any node, *)
(* itself included; updateTransform is called on a node without parent.    *)
(***************************************************************************)
TreeAddChild(p, c) ==
    /\ Commit(AddChild(St, p, c))
    /\ last' = [op |-> "addChild", node |-> p, target |-> c, key |-> "", ret |-> TRUE,
                before |-> parent[c]]
    /\ UNCHANGED <<insertionOrder, tabRun, nops, inputVars>>

TreeRemoveChild(p, c) ==
    /\ Commit(RemoveChild(St, p, c))
    /\ last' = [op |-> "removeChild", node |-> p, target |-> c, key |-> "",
                ret |-> IndexOf(children[p], c) > 0, before |-> parent[c]]
    /\ UNCHANGED <<insertionOrder, tabRun, nops, inputVars>>

TreeUpdateTransform(r) ==
    /\ parent[r] = NoNode
    /\ Commit([St EXCEPT !.absolutePosition =
                  UpdateTransform(parent, children, position, @, r)])
    /\ last' = [op |-> "updateTransform", node |-> r, target |-> NoNode, key |-> "",
                ret |-> TRUE, before |-> NoNode]
    /\ UNCHANGED <<insertionOrder, tabRun, nops, inputVars>>

NextTree ==
    \/ \E p \in TreeNodes, c \in TreeNodes : TreeAddChild(p, c)
    \/ \E p \in TreeNodes, c \in TreeNodes : TreeRemoveChild(p, c)
    \/ \E r \in TreeNodes : TreeUpdateTransform(r)

SpecTree == InitTree /\ [][NextTree]_vars

(***************************************************************************)
(* Definitions used to state the properties.                               *)
(***************************************************************************)
Registry == Range(focusableComponents)

Arrows == {"up", "down", "left", "right"}

\* The number of times x occurs in seq.
Occurrences(seq, x) == Cardinality({i \in 1..Len(seq) : seq[i] = x})

RECURSIVE PathSum(_, _, _)
\* The sum of the local offsets from the root of n's tree down to n.
PathSum(pa, po, n) ==
    IF pa[n] = NoNode THEN po[n] ELSE Add(PathSum(pa, po, pa[n]), po[n])

\* Whether component c, when focused, handles key itself.
HandlesKey(c, key) ==
    ComponentHandleKey([St EXCEPT !.isFocused = [@ EXCEPT ![c] = TRUE]], c, key).ret

\* The focusable components below the scene.
FocusablesInScene == Components \cap Subtree(children, TheScene)

\* The sort key of a registry entry: its tab index, entries without one after all others.
SortKey(c) == IF tabIndex[c] = NoIndex THEN 1000000 ELSE tabIndex[c]

\* The entry after c in the registry, wrapping; the first entry when c is not in it.
NextInRegistry(c) ==
    focusableComponents[(IndexOf(focusableComponents, c) % Len(focusableComponents)) + 1]

\* The registered components other than from that lie strictly in direction key of it.
Candidates(from, key) ==
    {c \in Registry \ {from} :
        IsCandidate(key, absolutePosition[from], absolutePosition[c])}

Score(from, key, c) == Distance(key, absolutePosition[from], absolutePosition[c])

\* The candidate of minimal score that is earliest in the registry.
BestCandidate(from, key) ==
    CHOOSE c \in Candidates(from, key) :
        \A d \in Candidates(from, key) \ {c} :
            \/ Score(from, key, c) < Score(from, key, d)
            \/ /\ Score(from, key, c) = Score(from, key, d)
               /\ IndexOf(focusableComponents, c) < IndexOf(focusableComponents, d)

(***************************************************************************)
(* C1.  After Scene.removeChild has detached a subtree that contained the  *)
(* focused component (the removed child or a descendant of it), the        *)
(* focused reference is null or a member of the focus registry.            *)
(* The code fails this when the focused component is a descendant.         *)
(***************************************************************************)
C1_FocusLeavesRemovedSubtree ==
    (/\ last.op = "removeChild"
     /\ last.node = TheScene
     /\ last.ret
     /\ last.before \in Subtree(children, last.target))
    => (focusedComponent = NoNode \/ focusedComponent \in Registry)

(***************************************************************************)
(* C2.  In every reachable state the focused reference is null or a        *)
(* member of the focus registry.  The code fails this: setFocus accepts a  *)
(* component that the scene never registered.                              *)
(***************************************************************************)
C2_FocusedIsRegistered ==
    focusedComponent = NoNode \/ focusedComponent \in Registry

(***************************************************************************)
(* C3.  Every node occurs in at most one child list and at most once       *)
(* there, n.parent = p exactly when n is in p.children, and addChild(p, c) *)
(* of a node with a parent removes c from the old parent's list exactly    *)
(* once and appends it to p's list.                                        *)
(***************************************************************************)
\* A node in the lists of two parents would have both as its parent, so the second
\* conjunct covers "at most one child list".
TreeConsistent ==
    /\ \A p \in Nodes : \A i \in 1..Len(children[p]), j \in 1..Len(children[p]) :
          i # j => children[p][i] # children[p][j]
    /\ \A p \in Nodes : \A c \in Range(children[p]) : parent[c] = p
    /\ \A n \in Nodes : parent[n] # NoNode => n \in Range(children[parent[n]])

AddChildMoves ==
    LET p == last'.node
        c == last'.target
        q == parent[c]
    IN  last'.op = "addChild" =>
            /\ parent'[c] = p
            /\ children'[p] = Append(SelectSeq(children[p], LAMBDA x : x # c), c)
            /\ (q # NoNode /\ q # p) =>
                   /\ Occurrences(children[q], c) = 1
                   /\ children'[q] = SelectSeq(children[q], LAMBDA x : x # c)
            /\ \A n \in Nodes \ {p, q} : children'[n] = children[n]
            /\ \A n \in Nodes \ {c} : parent'[n] = parent[n]

C3_SingleParent == []TreeConsistent /\ [][AddChildMoves]_vars

\* addChild has moved a node from one parent to another.
C3_Witness ==
    /\ last.op = "addChild"
    /\ last.before \notin {NoNode, last.node}
    /\ parent[last.target] = last.node
    /\ Len(children[last.node]) >= 2

(***************************************************************************)
(* C4.  Immediately after updateTransform on a root, the absolute position *)
(* of every node of its tree is the component-wise sum of the local        *)
(* positions on the path from the root to the node.                        *)
(***************************************************************************)
C4_AbsoluteIsPathSum ==
    last.op = "updateTransform" =>
        \A n \in Subtree(children, last.node) :
            absolutePosition[n] = PathSum(parent, position, n)

\* updateTransform has run on a root whose tree is three levels deep.
C4_Witness ==
    /\ last.op = "updateTransform"
    /\ \E n \in Subtree(children, last.node) :
          /\ parent[n] # NoNode
          /\ parent[parent[n]] # NoNode
          /\ parent[parent[parent[n]]] = last.node
          /\ absolutePosition[n] # position[n]
          /\ absolutePosition[n] # Add(position[parent[n]], position[n])

(***************************************************************************)
(* C5.  With a registry of N >= 1 entries none of which handles 'tab'      *)
(* itself, N dispatches of 'tab' that start with a registry entry focused  *)
(* leave the focus on that entry.                                          *)
(***************************************************************************)
C5_TabCycleCloses ==
    (/\ Len(focusableComponents) >= 1
     /\ tabRun.n = Len(focusableComponents)
     /\ tabRun.start \in Registry
     /\ \A c \in Registry : ~HandlesKey(c, "tab"))
    => focusedComponent = tabRun.start

\* 'tab' has been dispatched twice on a registry of two entries, one of them focused.
C5_Witness ==
    /\ Len(focusableComponents) = 2
    /\ tabRun.n = 2
    /\ tabRun.start \in Registry
    /\ last.op = "handleKey"
    /\ last.key = "tab"

(***************************************************************************)
(* C6.  With at least two registry entries and a focused entry that does   *)
(* not handle 'tab' itself, 'tab' moves the focus to a different entry and *)
(* the 'shift_tab' that follows restores the original one.  The code does  *)
(* not move the focus on 'tab'.                                            *)
(***************************************************************************)
C6_ShiftTabInvertsTab ==
    [][(/\ last.op = "handleKey"
        /\ last.key = "tab"
        /\ Len(focusableComponents) >= 2
        /\ last.before \in Registry
        /\ ~HandlesKey(last.before, "tab")
        /\ last'.op = "handleKey"
        /\ last'.key = "shift_tab"
        /\ nops' = nops + 1)
       => (/\ focusedComponent # last.before
           /\ focusedComponent' = last.before)]_vars

(***************************************************************************)
(* C7.  When the focused component does not handle 'tab', handleKey('tab') *)
(* reports the key handled and moves the focus to the next focusable       *)
(* component in tab order, wrapping from the last to the first and taking  *)
(* the first when nothing is focused, also for components nested in groups *)
(* or in a tab container.  The code's tab branch never finds a component.  *)
(***************************************************************************)
C7_TabAdvancesFocus ==
    (/\ last.op = "handleKey"
     /\ last.key = "tab"
     /\ FocusablesInScene # {}
     /\ last.before # NoNode => ~HandlesKey(last.before, "tab"))
    => /\ last.ret
       /\ focusedComponent \in FocusablesInScene
       /\ (last.before \in FocusablesInScene /\ Cardinality(FocusablesInScene) >= 2)
              => focusedComponent # last.before
       /\ FocusablesInScene = Registry => focusedComponent = NextInRegistry(last.before)

(***************************************************************************)
(* C8.  The focus registry is ordered by tab index ascending, entries      *)
(* without a tab index after all entries with one, and entries with equal  *)
(* keys in the order they were registered; registering A (no index),       *)
(* B (index 1), C (index 0) in that order yields [C, B, A].                *)
(***************************************************************************)
C8_RegistrySorted ==
    /\ Registry = Range(insertionOrder)
    /\ Len(focusableComponents) = Len(insertionOrder)
    /\ \A i \in 1..Len(focusableComponents), j \in 1..Len(focusableComponents) :
          i < j =>
              /\ SortKey(focusableComponents[i]) <= SortKey(focusableComponents[j])
              /\ SortKey(focusableComponents[i]) = SortKey(focusableComponents[j]) =>
                     IndexOf(insertionOrder, focusableComponents[i])
                         < IndexOf(insertionOrder, focusableComponents[j])
    /\ (/\ insertionOrder = <<"B1", "B2", "I1">>
        /\ tabIndex["B1"] = NoIndex /\ tabIndex["B2"] = 1 /\ tabIndex["I1"] = 0)
       => focusableComponents = <<"I1", "B2", "B1">>

\* A (no index), B (index 1), C (index 0) have been added to the scene in that order.
C8_Witness ==
    /\ insertionOrder = <<"B1", "B2", "I1">>
    /\ tabIndex["B1"] = NoIndex /\ tabIndex["B2"] = 1 /\ tabIndex["I1"] = 0
    /\ focusableComponents = <<"I1", "B2", "B1">>
    /\ last.op = "addChild"

(***************************************************************************)
(* C9.  Whenever handleKey with an arrow token changes the focus by        *)
(* spatial navigation, the newly focused component lies strictly in the    *)
(* requested direction from the previously focused one.                    *)
(***************************************************************************)
C9_ArrowMovesInDirection ==
    (/\ last.op = "handleKey"
     /\ last.key \in Arrows
     /\ last.before # NoNode
     /\ focusedComponent # last.before)
    => /\ focusedComponent # NoNode
       /\ IsCandidate(last.key, absolutePosition[last.before],
                      absolutePosition[focusedComponent])

(***************************************************************************)
(* C10.  On an arrow token that the focused component does not handle, the *)
(* focus moves to the registered component, other than the focused one,    *)
(* that lies strictly in the requested direction with minimal score, the   *)
(* earliest in the registry among equal scores.  The code's arrow branch   *)
(* never finds a candidate.                                                *)
(***************************************************************************)
C10_ArrowFocusesNearest ==
    (/\ last.op = "handleKey"
     /\ last.key \in Arrows
     /\ last.before # NoNode
     /\ kind[last.before] = "Button" \/ last.key \in {"up", "down"}
     /\ Candidates(last.before, last.key) # {})
    => focusedComponent = BestCandidate(last.before, last.key)

(***************************************************************************)
(* The input layer: KEY_MAPPING, KeyboardInputHandler._handleInput and     *)
(* _handleKey, InputManager.  A chunk is a sequence of characters; the     *)
(* control characters are written ESC, CR, LF, TAB and DEL.  The input     *)
(* manager and the keyboard handler are constructed with the scene.        *)
(***************************************************************************)
\* KEY_MAPPING, in the order of the object literal, which is the order of for..in.
KEY_MAPPING ==
    <<[seq |-> <<"ESC", "[", "A">>, key |-> "up"],
      [seq |-> <<"ESC", "[", "B">>, key |-> "down"],
      [seq |-> <<"ESC", "[", "C">>, key |-> "right"],
      [seq |-> <<"ESC", "[", "D">>, key |-> "left"],
      [seq |-> <<"ESC", "[", "H">>, key |-> "home"],
      [seq |-> <<"ESC", "[", "F">>, key |-> "end"],
      [seq |-> <<"ESC", "[", "3", "~">>, key |-> "delete"],
      [seq |-> <<"ESC", "[", "5", "~">>, key |-> "page_up"],
      [seq |-> <<"ESC", "[", "6", "~">>, key |-> "page_down"],
      [seq |-> <<"ESC">>, key |-> "escape"],
      [seq |-> <<"CR">>, key |-> "enter"],
      [seq |-> <<"LF">>, key |-> "enter"],
      [seq |-> <<"TAB">>, key |-> "tab"],
      [seq |-> <<" ">>, key |-> "space"],
      [seq |-> <<"DEL">>, key |-> "backspace"],
      [seq |-> <<"ESC", "[", "Z">>, key |-> "shift_tab"]>>

\* String.startsWith
StartsWith(input, seq) ==
    Len(input) >= Len(seq) /\ SubSeq(input, 1, Len(seq)) = seq

RECURSIVE MatchFrom(_, _)
\* The for..in loop of _handleInput from entry i on: the first entry whose sequence
\* the input starts with, 0 when the loop ends without a match.
MatchFrom(input, i) ==
    IF i > Len(KEY_MAPPING) THEN 0
    ELSE IF StartsWith(input, KEY_MAPPING[i].seq) THEN i
    ELSE MatchFrom(input, i + 1)

\* The key passed to _handleKey: the entry's name, or the leading character.
KeyOf(input, i) == IF i > 0 THEN KEY_MAPPING[i].key ELSE input[1]

\* Consumed with one character consumed whatever matched.
ConsumedOne(i) == 1

\* The number of characters the iteration consumes: seq.length, or 1.
Consumed(i) == IF i > 0 THEN Len(KEY_MAPPING[i].seq) ELSE 1

\* String.substring(n)
Substring(input, n) == SubSeq(input, n + 1, Len(input))

\* KeyboardInputHandler._handleKey: the key goes to scene.handleKey.
KeyboardHandleKey(s, key) ==
    SceneHandleKey(Invoked(s, "scene.handleKey", TheScene, key), key)

\* this.globalHandlers[key], undefined read as no handlers.
GlobalsFor(key) == IF key \in GlobalKeys THEN globalHandlers[key] ELSE <<>>

RECURSIVE InvokeGlobals(_, _, _, _)
\* for (const handler of this.globalHandlers[key]) handler(key)
InvokeGlobals(s, handlers, i, key) ==
    IF i > Len(handlers) THEN s
    ELSE InvokeGlobals(Invoked(s, "globalHandler", handlers[i], key), handlers, i + 1, key)

\* InputManagerHandleKey with the scene called before the global handlers.
InputManagerSceneFirst(s, key) ==
    [st |-> InvokeGlobals(KeyboardHandleKey(s, key).st, GlobalsFor(key), 1, key),
     ret |-> KeyboardHandleKey(s, key).ret]

\* InputManager.handleKey: the global handlers of the key, then scene.handleKey.
InputManagerHandleKey(s, key) ==
    SceneHandleKey(
        Invoked(InvokeGlobals(s, GlobalsFor(key), 1, key), "scene.handleKey", TheScene, key),
        key)

\* The characters of a chunk that begin no entry of KEY_MAPPING.
LiteralChars == {"a", "["}

\* The longest chunk, counted in pieces: a piece is the sequence of one entry of
\* KEY_MAPPING or one literal character.
MaxPieces == 2

Pieces == {KEY_MAPPING[i].seq : i \in DOMAIN KEY_MAPPING} \cup {<<b>> : b \in LiteralChars}

RECURSIVE ChunksOf(_)
ChunksOf(n) ==
    IF n = 0 THEN {<<>>}
    ELSE ChunksOf(n - 1) \cup {c \o p : c \in ChunksOf(n - 1), p \in Pieces}

\* The chunks that reader.read() may return.
Chunks == ChunksOf(MaxPieces) \ {<<>>}

\* Keys passed to InputManager.handleKey and simulateKeyPress.
SimulatedKeys == {"a", "shift_tab", "enter"}

\* The number of operations of the input layer in one behaviour.
MaxInputOps == 3

InitInput == InitWith(SceneLayout, [c \in Components |-> NoIndex])

\* An operation of the input layer is recorded.
RecordInput(op, key, ret) ==
    last' = [op |-> op, node |-> TheScene, target |-> NoNode, key |-> key, ret |-> ret,
             before |-> focusedComponent]

\* scene.addChild(component), between two chunks.
InputAddChild(c) ==
    /\ nops < MaxInputOps
    /\ currentInput = <<>>
    /\ DoAddChild(TheScene, c)

\* inputManager.registerGlobalHandler(key, handler)
InputRegisterGlobalHandler(key, h) ==
    /\ nops < MaxInputOps
    /\ currentInput = <<>>
    /\ globalHandlers' = [globalHandlers EXCEPT ![key] = Append(@, h)]
    /\ Commit(St)
    /\ RecordInput("registerGlobalHandler", key, TRUE)
    /\ nops' = nops + 1
    /\ UNCHANGED <<currentInput, chunk, tokens, typed, insertionOrder, tabRun, drawVars, loopVars>>

\* this.globalHandlers[key] after unregisterGlobalHandler(key, handler): the first
\* occurrence of the handler is spliced out, if there is one.
Unregistered(handlers, h) ==
    IF IndexOf(handlers, h) > 0 THEN Splice(handlers, IndexOf(handlers, h)) ELSE handlers

\* inputManager.unregisterGlobalHandler(key, handler)
InputUnregisterGlobalHandler(key, h) ==
    /\ nops < MaxInputOps
    /\ currentInput = <<>>
    /\ globalHandlers' = [globalHandlers EXCEPT ![key] = Unregistered(@, h)]
    /\ Commit(St)
    /\ RecordInput("unregisterGlobalHandler", key, TRUE)
    /\ nops' = nops + 1
    /\ UNCHANGED <<currentInput, chunk, tokens, typed, insertionOrder, tabRun, drawVars, loopVars>>

\* What a call returns: InputManager.handleKey returns the result of the scene;
\* simulateKeyPress and KeyboardInputHandler._handleKey are void and drop it, which is
\* recorded as FALSE.
Returned(op, ret) == IF op \in {"simulateKeyPress", "_handleKey"} THEN FALSE ELSE ret

\* A call of the input manager takes effect.
ManagerDispatched(r, op, key) ==
    /\ Commit(r.st)
    /\ RecordInput(op, key, Returned(op, r.ret))

\* inputManager.handleKey(key), and simulateKeyPress(key), which calls it.
InputManagerKey(op, key) ==
    /\ nops < MaxInputOps
    /\ currentInput = <<>>
    /\ ManagerDispatched(InputManagerHandleKey(St, key), op, key)
    /\ typed' = TypedAfter(focusedComponent, key)
    /\ nops' = nops + 1
    /\ UNCHANGED <<globalHandlers, currentInput, chunk, tokens, insertionOrder, tabRun, drawVars, loopVars>>

\* ChunkInput with the chunk appended to the one read before it.
ChunkInputJoined(before, c) == before \o c

\* let currentInput = input: decoding starts from the chunk alone, whatever was read
\* before it.
ChunkInput(before, c) == c

\* _inputLoop: reader.read() returns a chunk, which is passed to _handleInput.
InputRead(c) ==
    /\ nops < MaxInputOps
    /\ currentInput = <<>>
    /\ currentInput' = ChunkInput(previous, c)
    /\ chunk' = c
    /\ tokens' = <<>>
    /\ Commit(St)
    /\ RecordInput("read", "", TRUE)
    /\ nops' = nops + 1
    /\ UNCHANGED <<globalHandlers, typed, insertionOrder, tabRun, drawVars, loopVars>>

\* One iteration of the while loop of _handleInput.
InputDecodeStep ==
    /\ currentInput # <<>>
    /\ ManagerDispatched(
           KeyboardHandleKey(St, KeyOf(currentInput, MatchFrom(currentInput, 1))),
           "_handleKey", KeyOf(currentInput, MatchFrom(currentInput, 1)))
    /\ tokens' = Append(tokens, KeyOf(currentInput, MatchFrom(currentInput, 1)))
    /\ currentInput' = Substring(currentInput, Consumed(MatchFrom(currentInput, 1)))
    /\ typed' = TypedAfter(focusedComponent, KeyOf(currentInput, MatchFrom(currentInput, 1)))
    /\ UNCHANGED <<globalHandlers, chunk, insertionOrder, tabRun, nops, drawVars, loopVars>>

NextInput ==
    \/ \E c \in {"I1"} : InputAddChild(c)
    \/ \E key \in GlobalKeys, h \in GlobalHandlerIds : InputRegisterGlobalHandler(key, h)
    \/ \E key \in GlobalKeys, h \in GlobalHandlerIds : InputUnregisterGlobalHandler(key, h)
    \/ \E op \in {"inputManager.handleKey", "simulateKeyPress"}, key \in SimulatedKeys :
          InputManagerKey(op, key)
    \/ \E c \in Chunks : InputRead(c)
    \/ InputDecodeStep

SpecInput == InitInput /\ [][NextInput]_vars

\* The parts into which the multi-byte sequences of KEY_MAPPING can be split between
\* two reads, and the whole sequences.
SplitChunks ==
    UNION {{SubSeq(KEY_MAPPING[i].seq, 1, k) : k \in 1..Len(KEY_MAPPING[i].seq)}
           \cup {SubSeq(KEY_MAPPING[i].seq, k, Len(KEY_MAPPING[i].seq)) :
                     k \in 2..Len(KEY_MAPPING[i].seq)} : i \in DOMAIN KEY_MAPPING}

\* reader.read() returns a chunk; the chunk read before it is recorded.
SplitRead(c) ==
    /\ nops < MaxInputOps
    /\ currentInput = <<>>
    /\ currentInput' = ChunkInput(chunk, c)
    /\ chunk' = c
    /\ previous' = chunk
    /\ tokens' = <<>>
    /\ Commit(St)
    /\ RecordInput("read", "", TRUE)
    /\ nops' = nops + 1
    /\ UNCHANGED <<globalHandlers, typed, insertionOrder, tabRun, drawVars, loop>>

\* The input loop reading sequences that arrive whole or split between reads.
NextSplit ==
    \/ \E c \in SplitChunks : SplitRead(c)
    \/ InputDecodeStep

SpecSplit == InitInput /\ [][NextSplit]_vars

\* The input loop alone, over a scene that may hold the text input.
NextDecode ==
    \/ \E c \in {"I1"} : InputAddChild(c)
    \/ \E c \in Chunks : InputRead(c)
    \/ InputDecodeStep

\* while (this.currentInput.length > 0): the remainder is cut by what the iteration
\* consumes.
LoopRuns ==
    /\ currentInput # <<>>
    /\ currentInput' = Substring(currentInput, Consumed(MatchFrom(currentInput, 1)))

\* _handleInput is a synchronous loop: once a chunk is read its iterations run.
SpecDecode == InitInput /\ [][NextDecode]_vars /\ WF_currentInput(LoopRuns)

(***************************************************************************)
(* KeyboardInputHandler.start, stop and _inputLoop.  loop.pc is the        *)
(* position of the loop: idle (never started), reading (awaiting           *)
(* reader.read()), handling (in _handleInput), done (left the loop, reader *)
(* released, promise settled).  loop.stops holds one record per call of    *)
(* stop(): the promise it awaits (null, loop, rejected), the state of the  *)
(* promise it returned (waiting at its await on a pending promise, ready   *)
(* to resume, resolved, rejected) and whether a loop was active when it    *)
(* was called.  loop.queue holds the calls whose continuation is ready to  *)
(* run, in the order in which they became ready.                           *)
(***************************************************************************)
\* start(): Deno.stdin.setRaw(true, options) succeeds, or throws and is caught.
Acquire(l, ok) ==
    IF ok THEN [l EXCEPT !.originalRawOptions = TRUE, !.raw = TRUE, !.restoreFailed = FALSE]
    ELSE [l EXCEPT !.originalRawOptions = FALSE]

\* this.inputLoopPromise = this._inputLoop(), up to its first await: getReader(), which
\* throws when a loop that has not ended holds the lock, the test of running, the read.
Launch(l) ==
    IF l.pc \in {"reading", "handling"}
    THEN [l EXCEPT !.inputLoopPromise = "rejected"]
    ELSE [l EXCEPT !.inputLoopPromise = "loop", !.pc = "reading", !.reads = @ + 1]

\* KeyboardInputHandler.start
Start(l, ok) ==
    IF l.running THEN l ELSE Launch(Acquire([l EXCEPT !.running = TRUE], ok))

\* stop(): Deno.stdin.setRaw(false, options) when options were stored; it succeeds, or
\* throws and is caught.
Restore(l, ok) ==
    IF ~l.originalRawOptions THEN l
    ELSE IF ok THEN [l EXCEPT !.raw = FALSE, !.restoreFailed = FALSE]
    ELSE [l EXCEPT !.restoreFailed = TRUE]

\* A loop is between its getReader() and its releaseLock().
LoopActive(l) == l.pc \in {"reading", "handling"}

\* The promise in inputLoopPromise is settled: the rejected promise of a launch that
\* failed, or the promise of the loop launched last, which has ended.
Settled(l) == l.inputLoopPromise = "rejected" \/ l.pc = "done"

\* stop(): if (this.inputLoopPromise) await this.inputLoopPromise
Await(l) ==
    IF l.inputLoopPromise = "null"
    THEN [l EXCEPT !.stops = Append(@, [awaited |-> "null", state |-> "resolved",
                                        active |-> LoopActive(l)])]
    ELSE IF Settled(l)
    THEN [l EXCEPT !.stops = Append(@, [awaited |-> l.inputLoopPromise, state |-> "ready",
                                        active |-> LoopActive(l)]),
                   !.queue = Append(@, Len(l.stops) + 1)]
    ELSE [l EXCEPT !.stops = Append(@, [awaited |-> l.inputLoopPromise, state |-> "waiting",
                                        active |-> LoopActive(l)])]

\* KeyboardInputHandler.stop, up to its await.
Stop(l, ok) == Await(Restore([l EXCEPT !.running = FALSE], ok))

\* A continuation of stop() is ready, and no synchronous code of the loop is running.
StopCanResume(l) == l.queue # <<>> /\ l.pc # "handling"

\* stop() after its await: a rejected promise throws, otherwise inputLoopPromise = null.
Resumed(l) ==
    IF l.stops[Head(l.queue)].awaited = "rejected"
    THEN [l EXCEPT !.stops[Head(l.queue)].state = "rejected", !.queue = Tail(@)]
    ELSE [l EXCEPT !.inputLoopPromise = "null", !.stops[Head(l.queue)].state = "resolved",
                   !.queue = Tail(@)]

\* The calls of stop() that wait for the loop, in the order of their calls.
RECURSIVE Waiting(_, _)
Waiting(stops, i) ==
    IF i > Len(stops) THEN <<>>
    ELSE IF stops[i].state = "waiting" THEN <<i>> \o Waiting(stops, i + 1)
    ELSE Waiting(stops, i + 1)

\* The loop is left: finally releases the reader and the promise of _inputLoop resolves,
\* which makes ready every stop() that awaits it.
Ended(l) ==
    [l EXCEPT !.pc = "done",
              !.queue = @ \o Waiting(l.stops, 1),
              !.stops = [i \in DOMAIN l.stops |->
                            IF l.stops[i].state = "waiting"
                            THEN [l.stops[i] EXCEPT !.state = "ready"] ELSE l.stops[i]]]

\* while (this.running), after _handleInput returned: another read, or the loop is left.
Continue(l) ==
    IF l.running THEN [l EXCEPT !.pc = "reading", !.reads = @ + 1]
    ELSE Ended(l)

\* The chunks that the reads of the loop return.
LoopChunks == {<<"a">>, <<"ESC", "[", "A">>, <<"a", "CR">>}

\* The number of start(), stop() calls and returned chunks in one behaviour.
MaxLoopOps == 5

\* What no step of the keyboard handler changes.
loopFrame == <<parent, children, position, absolutePosition, visible, isFocused, value,
               cursorPos, tabs, activeTabIndex, focusedComponent, focusableComponents,
               keyboardHandlers, tabIndex, inputHandlers, frame, calls, passes, globalHandlers,
               typed, previous, rect, wire, images, insertionOrder, tabRun>>

\* keyboardHandler.start()
LoopStart(ok) ==
    /\ nops < MaxLoopOps
    /\ loop' = Start(loop, ok)
    /\ RecordInput("start", "", TRUE)
    /\ nops' = nops + 1
    /\ UNCHANGED <<loopFrame, currentInput, chunk, tokens>>

\* keyboardHandler.stop(), called from outside or from a key handler.
LoopStop(ok) ==
    /\ nops < MaxLoopOps
    /\ loop' = Stop(loop, ok)
    /\ RecordInput("stop", "", TRUE)
    /\ nops' = nops + 1
    /\ UNCHANGED <<loopFrame, currentInput, chunk, tokens>>

\* The continuation of the stop() that became ready first runs.
LoopStopResumes ==
    /\ StopCanResume(loop)
    /\ loop' = Resumed(loop)
    /\ RecordInput("stop resumes", "", TRUE)
    /\ UNCHANGED <<loopFrame, currentInput, chunk, tokens, nops>>

\* The pending read returns a chunk, which goes to _handleInput.  A read that had
\* settled before stop() was called resumes before the continuation of that stop().
LoopReadValue(c) ==
    /\ nops < MaxLoopOps
    /\ loop.pc = "reading"
    /\ currentInput' = ChunkInput(previous, c)
    /\ chunk' = c
    /\ tokens' = <<>>
    /\ loop' = [loop EXCEPT !.pc = "handling"]
    /\ RecordInput("read", "", TRUE)
    /\ nops' = nops + 1
    /\ UNCHANGED loopFrame

\* _handleInput has returned: the loop tests running.
LoopNext ==
    /\ loop.pc = "handling"
    /\ currentInput = <<>>
    /\ loop' = Continue(loop)
    /\ RecordInput("while", "", loop.running)
    /\ UNCHANGED <<loopFrame, currentInput, chunk, tokens, nops>>

\* The pending read reports the end of the stream: break, then finally.
LoopReadDone ==
    /\ loop.pc = "reading"
    /\ loop' = Ended(loop)
    /\ RecordInput("read done", "", TRUE)
    /\ UNCHANGED <<loopFrame, currentInput, chunk, tokens, nops>>

\* The pending read throws: catch, then finally.
LoopReadError ==
    /\ loop.pc = "reading"
    /\ loop' = Ended(loop)
    /\ RecordInput("read error", "", FALSE)
    /\ UNCHANGED <<loopFrame, currentInput, chunk, tokens, nops>>

NextLoop ==
    \/ \E ok \in BOOLEAN : LoopStart(ok)
    \/ \E ok \in BOOLEAN : LoopStop(ok)
    \/ LoopStopResumes
    \/ \E c \in LoopChunks : LoopReadValue(c)
    \/ InputDecodeStep
    \/ LoopNext
    \/ LoopReadDone
    \/ LoopReadError

\* The loop's synchronous code and the continuations of settled promises run.
SpecLoop ==
    /\ InitInput
    /\ [][NextLoop]_vars
    /\ WF_currentInput(LoopRuns)
    /\ WF_loop(LoopNext)
    /\ WF_loop(LoopStopResumes)

(***************************************************************************)
(* Rectangle.render and the KittyUtil calls it makes.  A write to stdout   *)
(* is a record: a CSI sequence (its final character and its parameters)    *)
(* or plain text (its characters).                                         *)
(***************************************************************************)
\* String.repeat
Repeat(ch, n) == [i \in 1..n |-> ch]

\* KittyUtil.moveCursor: ESC [ row ; col H
MoveCursor(row, col) == [csi |-> "H", args |-> <<row, col>>, text |-> <<>>]

\* KittyUtil.setForegroundColor: ESC [ 38 ; 2 ; r ; g ; b m
SetForegroundColor(c) == [csi |-> "m", args |-> <<38, 2>> \o c, text |-> <<>>]

\* KittyUtil.setBackgroundColor: ESC [ 48 ; 2 ; r ; g ; b m
SetBackgroundColor(c) == [csi |-> "m", args |-> <<48, 2>> \o c, text |-> <<>>]

\* KittyUtil.resetColors: ESC [ 0 m
ResetColors == [csi |-> "m", args |-> <<0>>, text |-> <<>>]

\* kittyUtil.stdout.writeSync(new TextEncoder().encode(text))
WriteText(str) == [csi |-> "", args |-> <<>>, text |-> str]

\* RowText with one space for each cell.
RowTextOneEach(width) == Repeat(" ", width)

\* " ".repeat(width * 2)
RowText(width) == Repeat(" ", width * 2)

RECURSIVE FilledRows(_, _)
\* The loop of the filled rectangle, from row on.
FilledRows(r, row) ==
    IF row >= r.h THEN <<>>
    ELSE <<MoveCursor(r.y + row + 1, r.x + 1), SetBackgroundColor(r.color),
           WriteText(RowText(r.w)), ResetColors>>
         \o FilledRows(r, row + 1)

\* "+" + "-".repeat(width * 2 - 2) + "+"
Border(r) == <<"+">> \o Repeat("-", r.w * 2 - 2) \o <<"+">>

RECURSIVE SideRows(_, _)
\* The loop of the side borders, from row on.
SideRows(r, row) ==
    IF row >= r.h - 1 THEN <<>>
    ELSE <<MoveCursor(r.y + row + 1, r.x + 1),
           WriteText(<<"|">> \o Repeat(" ", r.w * 2 - 2) \o <<"|">>)>>
         \o SideRows(r, row + 1)

\* Rectangle.render
RectangleRender(r) ==
    <<MoveCursor(r.y + 1, r.x + 1)>>
    \o IF r.fill
       THEN FilledRows(r, 0)
       ELSE <<SetForegroundColor(r.color), MoveCursor(r.y + 1, r.x + 1), WriteText(Border(r))>>
            \o SideRows(r, 1)
            \o <<MoveCursor(r.y + r.h, r.x + 1), WriteText(Border(r)), ResetColors>>

\* The largest coordinate, width and height of the rectangles drawn.
MaxRectPos == 1
MaxRectW == 4
MaxRectH == 2

RectColors == {<<255, 0, 0>>, <<50, 50, 70>>}

\* The rectangles: absolute position (x, y), size (w, h), fill and colour.
Rects == [x : 0..MaxRectPos, y : 0..MaxRectPos, w : 1..MaxRectW, h : 0..MaxRectH,
          fill : BOOLEAN, color : RectColors]

\* new Rectangle(size, color, fill, position), placed by updateTransform.
DrawNew(r) ==
    /\ rect' = r
    /\ wire' = <<>>
    /\ UNCHANGED <<images, uiVars>>

\* rectangle.render(kittyUtil) on a terminal that has nothing written yet.
DrawRender ==
    /\ wire = <<>>
    /\ wire' = RectangleRender(rect)
    /\ UNCHANGED <<rect, images, uiVars>>

NextDraw ==
    \/ \E r \in Rects : DrawNew(r)
    \/ DrawRender

SpecDraw == InitInput /\ [][NextDraw]_vars

(***************************************************************************)
(* Renderer.renderScene on a scene that holds a Rectangle and an Image.    *)
(* The terminal log keeps, for every write, the frame (the renderScene     *)
(* call) whose draw routine made it; the return of renderScene, after its  *)
(* flush, is logged too.  Image.render is async and is not awaited by      *)
(* _renderNode: its call of displayImage runs to its first await inside    *)
(* the frame, and the rest runs after renderScene has returned.  The       *)
(* repository holds two versions of KittyUtil: src/lib/kitty.ts, whose     *)
(* import of Image is commented out, so that every use of Image raises a   *)
(* ReferenceError, and unnamed/part_001, whose displayImage has no await.  *)
(***************************************************************************)
\* The two versions of KittyUtil.
KittyUtils == {"kitty.ts", "part_001"}

\* The kinds of imageSource that displayImage tells apart.
ImageSources == {"path", "bytes", "image"}

\* The awaits that displayImage enters.  kitty.ts: Deno.readFile for a path, after
\* which Image.decode raises; for bytes and any other source the first use of Image
\* raises before any await.  part_001: none.
Awaits(kitty, source) ==
    IF kitty = "kitty.ts" /\ source = "path" THEN 1 ELSE 0

\* The children of the scene, in list order.
ImageSceneChildren == <<"Rectangle", "Image">>

\* A write of a frame's draw routine, or the return of its renderScene.
FrameWrite(f, by, w) == [frame |-> f, by |-> by, write |-> w]

\* The writes of Rectangle.render in frame f.
RectangleWrites(f, r) ==
    [i \in 1..Len(RectangleRender(r)) |-> FrameWrite(f, "Rectangle", RectangleRender(r)[i])]

\* The escape sequence of formatImageCode, written by displayImage.
ImageCode == [csi |-> "_G", args |-> <<>>, text |-> <<>>]

\* Image.render up to the first await of displayImage.  part_001 writes the escape
\* sequence at once for a path and for bytes and returns without a write for any other
\* source; kitty.ts writes nothing.
ImageWrites(f, kitty, source) ==
    IF kitty = "part_001" /\ source \in {"path", "bytes"}
    THEN <<FrameWrite(f, "Image", ImageCode)>>
    ELSE <<>>

RECURSIVE RenderKids(_, _, _, _, _)
\* Renderer._renderNode over the children of the scene: render is called, not awaited.
RenderKids(f, r, kitty, source, i) ==
    IF i > Len(ImageSceneChildren) THEN <<>>
    ELSE (IF ImageSceneChildren[i] = "Rectangle" THEN RectangleWrites(f, r)
          ELSE ImageWrites(f, kitty, source))
         \o RenderKids(f, r, kitty, source, i + 1)

\* renderScene with the flush made before the nodes are rendered.
FrameWritesFlushFirst(f, r, kitty, source) ==
    <<FrameWrite(f, "clearScreen", [csi |-> "J", args |-> <<2>>, text |-> <<>>]),
      FrameWrite(f, "flush", [csi |-> "", args |-> <<>>, text |-> <<>>])>>
    \o RenderKids(f, r, kitty, source, 1)

\* Renderer.renderScene: clearScreen, the draw routines of the nodes, flush, return.
FrameWrites(f, r, kitty, source) ==
    <<FrameWrite(f, "clearScreen", [csi |-> "J", args |-> <<2>>, text |-> <<>>])>>
    \o RenderKids(f, r, kitty, source, 1)
    \o <<FrameWrite(f, "flush", [csi |-> "", args |-> <<>>, text |-> <<>>])>>

\* The displayImage calls still at an await once renderScene has returned.
PendingAfter(pending, f, kitty, source) ==
    IF Awaits(kitty, source) > 0
    THEN Append(pending, [frame |-> f, awaits |-> Awaits(kitty, source)])
    ELSE pending

\* The renderScene calls of one behaviour.
MaxFrames == 4

\* new Image(imageSource) in place of the scene's image.
ImageNew(source) ==
    /\ images.source # source
    /\ images' = [images EXCEPT !.source = source]
    /\ UNCHANGED <<rect, wire, uiVars>>

\* renderer.renderScene()
ImageRenderScene ==
    /\ nops < MaxFrames
    /\ nops' = nops + 1
    /\ wire' = wire \o FrameWrites(nops', rect, images.kitty, images.source)
    /\ images' = [images EXCEPT !.pending =
                      PendingAfter(@, nops', images.kitty, images.source)]
    /\ UNCHANGED <<parent, children, position, absolutePosition, visible, isFocused, value,
                   cursorPos, tabs, activeTabIndex, focusedComponent, focusableComponents,
                   keyboardHandlers, tabIndex, inputHandlers, frame, calls, passes,
                   globalHandlers, currentInput, chunk, tokens, typed, previous, loop, rect,
                   last, insertionOrder, tabRun>>

\* The await of Deno.readFile in a displayImage call of kitty.ts settles: it rejects, or
\* it returns and Image.decode raises a ReferenceError.  Either way the call is settled
\* and has written nothing.
ImageAwaitSettles(i) ==
    /\ i \in DOMAIN images.pending
    /\ images' = [images EXCEPT !.pending = Splice(@, i)]
    /\ UNCHANGED <<rect, wire, uiVars>>

NextImage ==
    \/ \E source \in ImageSources : ImageNew(source)
    \/ ImageRenderScene
    \/ \E i \in 1..MaxFrames : ImageAwaitSettles(i)

\* The renderer is built with either version of KittyUtil.
InitImage ==
    \E kitty \in KittyUtils : InitBuilt(SceneLayout, [c \in Components |-> NoIndex], kitty)

SpecImage == InitImage /\ [][NextImage]_vars

(***************************************************************************)
(* Helpers of the frame properties.                                        *)
(***************************************************************************)
\* The node draws of the last frame, in the order they were made.
Draws == SelectSeq(frame, LAMBDA e : e.call = "render")

\* The places of node n among the draws.
DrawnAt(n) == {i \in 1..Len(Draws) : Draws[i].node = n}

RECURSIVE AncestorsOrSelf(_, _)
\* n and the nodes above it, in a tree pa.
AncestorsOrSelf(pa, n) ==
    IF n = NoNode THEN {} ELSE {n} \cup AncestorsOrSelf(pa, pa[n])

(***************************************************************************)
(* C13.  After renderScene, no node was drawn whose visible flag is false, *)
(* and no node below such a node.                                          *)
(***************************************************************************)
C13_InvisibleNotDrawn ==
    last.op = "renderScene" =>
        \A i \in 1..Len(Draws) :
            \A a \in AncestorsOrSelf(parent, Draws[i].node) : visible[a]

(***************************************************************************)
(* C14.  A frame is clearScreen, the transform pass, the draws, flush, in  *)
(* this order; the draws are the pre-order of the scene's tree (every node *)
(* once, a parent before its children, a child's whole subtree before the  *)
(* next sibling), and every node is drawn at the absolute position that    *)
(* the transform pass of the frame gives it.                               *)
(***************************************************************************)
C14_FrameOrder ==
    last.op = "renderScene" =>
        /\ Len(frame) = Len(Draws) + 3
        /\ frame[1].call = "clearScreen"
        /\ frame[2].call = "updateTransform"
        /\ frame[Len(frame)].call = "flush"
        /\ \A n \in Nodes :
              Cardinality(DrawnAt(n)) = IF n \in Subtree(children, TheScene) THEN 1 ELSE 0
        /\ \A i \in 1..Len(Draws), j \in 1..Len(Draws) :
              parent[Draws[j].node] = Draws[i].node => i < j
        /\ \A p \in Subtree(children, TheScene) : \A k \in 1..(Len(children[p]) - 1) :
              \A m \in Subtree(children, children[p][k]) : \A i \in DrawnAt(m) :
                  \A j \in DrawnAt(children[p][k + 1]) : i < j
        /\ \A i \in 1..Len(Draws) :
              Draws[i].at = PathSum(parent, position, Draws[i].node)

\* A frame has been rendered of a scene with a component two levels down whose absolute
\* position the transform pass of that frame changed, and with two children after the
\* background.
C14_Witness ==
    /\ last.op = "renderScene"
    /\ Len(children[TheScene]) >= 3
    /\ \E i \in 1..Len(Draws) :
          /\ kind[Draws[i].node] = "Text"
          /\ parent[parent[Draws[i].node]] \notin {NoNode, TheScene}
          /\ Draws[i].at # Add(position[parent[Draws[i].node]], position[Draws[i].node])

(***************************************************************************)
(* Helpers of the key-handling properties.                                 *)
(***************************************************************************)
\* The operation about to be recorded is a handleKey call that reaches component c:
\* directly, or through the scene that has c focused.
KeyReaches(c) ==
    /\ nops' = nops + 1
    /\ \/ last'.op = "component.handleKey" /\ last'.node = c
       \/ last'.op = "handleKey" /\ focusedComponent = c

\* The last operation was a handleKey call that reached component c.
KeyReached(c) ==
    \/ last.op = "component.handleKey" /\ last.node = c
    \/ last.op = "handleKey" /\ last.before = c

\* What the handler registered on text input c for the key returns; "none" without one.
Registered19(c, key) ==
    IF key \in InputHandlerKeys THEN inputHandlers[c][key] ELSE "none"

\* The onClick invocations of the last operation.
Clicks == SelectSeq(calls, LAMBDA e : e.fn = "onClick")

(***************************************************************************)
(* C18.  A focused text input with room left inserts a single-character    *)
(* key at the cursor and advances the cursor; backspace with cursor > 0    *)
(* removes the character before the cursor and moves the cursor back; the  *)
(* characters typed into an empty input are its value, in order.  As       *)
(* stated, this is for every key (C18_TypingEditsAnyKey).  In the code a   *)
(* handler registered for the key runs first and, when it returns true,    *)
(* the built-in editing is skipped: the statement holds for the keys that  *)
(* no registered handler handles (C18_TypingEdits).                        *)
(***************************************************************************)
\* What the built-in editing of text input c does with the key that the step gives it.
TypingEdit(c) ==
    LET key == last'.key
        v == value[c]
        cp == cursorPos[c]
    IN  /\ (Len(key) = 1 /\ Len(v) < InputWidth - 3) =>
               /\ value'[c] = [i \in 1..(Len(v) + 1) |->
                                 IF i <= cp THEN v[i]
                                 ELSE IF i = cp + 1 THEN key ELSE v[i - 1]]
               /\ cursorPos'[c] = cp + 1
        /\ (key = "backspace" /\ cp > 0) =>
               /\ value'[c] = [i \in 1..(Len(v) - 1) |->
                                 IF i < cp THEN v[i] ELSE v[i + 1]]
               /\ cursorPos'[c] = cp - 1

\* The claim as stated: whatever handlers are registered.
TypingStepAnyKey ==
    \A c \in TextInputs : (KeyReaches(c) /\ isFocused[c]) => TypingEdit(c)

TypedInOrderAnyKey == \A c \in TextInputs : typed.ok => value[c] = typed.keys

C18_TypingEditsAnyKey == []TypedInOrderAnyKey /\ [][TypingStepAnyKey]_vars

\* The claim as amended: for the keys that no registered handler handles.
TypingStep ==
    \A c \in TextInputs :
        (KeyReaches(c) /\ isFocused[c] /\ Registered19(c, last'.key) # "handles") =>
            TypingEdit(c)

TypedInOrder ==
    \A c \in TextInputs : (typed.ok /\ ~typed.handled) => value[c] = typed.keys

C18_TypingEdits == []TypedInOrder /\ [][TypingStep]_vars

\* Two different characters were typed into the empty input, the cursor was moved
\* between them, and backspace has removed the first one.
C18_Witness ==
    /\ KeyReached("I1")
    /\ last.key = "backspace"
    /\ last.ret
    /\ value["I1"] = <<"b">>
    /\ cursorPos["I1"] = 0
    /\ nops = MaxKeyOps
    /\ \A key \in InputHandlerKeys : inputHandlers["I1"][key] = "none"

(***************************************************************************)
(* C19.  A key for which the focused text input has a registered handler   *)
(* goes to that handler first, which sees the value as typed so far; when  *)
(* the handler returns true the key is reported handled and value and      *)
(* cursor are left alone.                                                  *)
(***************************************************************************)
HandlerStep ==
    \A c \in TextInputs :
        LET key == last'.key
        IN  (KeyReaches(c) /\ isFocused[c] /\ Registered19(c, key) # "none") =>
                /\ Len(calls') >= 1
                /\ calls'[1] = [fn |-> "keyboardHandler", node |-> c, key |-> key,
                                value |-> value[c]]
                /\ Registered19(c, key) = "handles" =>
                       /\ last'.ret
                       /\ Len(calls') = 1
                       /\ value'[c] = value[c]
                       /\ cursorPos'[c] = cursorPos[c]

C19_HandlerFirst == [][HandlerStep]_vars

\* 'enter' has reached a focused input holding "a" whose handler for 'enter' returns
\* true.
C19_Witness ==
    /\ KeyReached("I1")
    /\ last.key = "enter"
    /\ last.ret
    /\ inputHandlers["I1"]["enter"] = "handles"
    /\ calls = <<[fn |-> "keyboardHandler", node |-> "I1", key |-> "enter",
                  value |-> <<"a">>]>>
    /\ value["I1"] = <<"a">>

(***************************************************************************)
(* C20.  Button.handleKey returns true and calls onClick once exactly when *)
(* the button is focused, the key is 'enter', ' ' or 'space' and onClick   *)
(* is set; otherwise it returns false, calls nothing, and a key that came  *)
(* through the scene goes on to the scene's later stages.                  *)
(***************************************************************************)
C20_ButtonClick ==
    \A b \in Buttons :
        KeyReached(b) =>
            IF isFocused[b] /\ last.key \in {"enter", " ", "space"} /\ b \in onClick
            THEN /\ last.ret
                 /\ calls = <<[fn |-> "onClick", node |-> b, key |-> last.key, value |-> <<>>]>>
            ELSE /\ Clicks = <<>>
                 /\ last.op = "component.handleKey" => ~last.ret /\ calls = <<>>
                 /\ last.op = "handleKey" =>
                        IF last.key \in keyboardHandlers
                        THEN /\ last.ret
                             /\ calls = <<[fn |-> "sceneHandler", node |-> TheScene,
                                           key |-> last.key, value |-> <<>>]>>
                        ELSE ~last.ret /\ calls = <<>>

\* 'space' has been given to the focused button that has an onClick.
C20_Witness ==
    /\ KeyReached("B1")
    /\ last.key = "space"
    /\ isFocused["B1"]
    /\ last.ret
    /\ Len(Clicks) = 1

(***************************************************************************)
(* Helpers of the input properties.                                        *)
(***************************************************************************)
\* The input loop has finished decoding the chunk it read.
Decoded == last.op = "_handleKey" /\ currentInput = <<>>

\* The characters that begin an entry of KEY_MAPPING.
Starters == {KEY_MAPPING[i].seq[1] : i \in DOMAIN KEY_MAPPING}

\* The entries of calls made by the input layer, in order.
RECURSIVE ManagerCalls(_)
ManagerCalls(cs) ==
    IF cs = <<>> THEN <<>>
    ELSE IF cs[1].fn \in {"globalHandler", "scene.handleKey"}
         THEN <<[fn |-> cs[1].fn, node |-> cs[1].node, key |-> cs[1].key]>> \o ManagerCalls(Tail(cs))
         ELSE ManagerCalls(Tail(cs))

\* The calls the registration list hs asks for, then the call of the scene.
ExpectedCalls(hs, key) ==
    [i \in 1..(Len(hs) + 1) |->
        IF i <= Len(hs) THEN [fn |-> "globalHandler", node |-> hs[i], key |-> key]
        ELSE [fn |-> "scene.handleKey", node |-> TheScene, key |-> key]]

(***************************************************************************)
(* C11.  A chunk that is exactly the byte sequence of one entry of the     *)
(* escape-sequence table decodes to exactly one token, the name of that    *)
(* entry; no multi-byte sequence is decoded as its one-byte prefix and     *)
(* literal characters.                                                     *)
(***************************************************************************)
C11_EntryDecodesToName ==
    \A i \in DOMAIN KEY_MAPPING :
        (Decoded /\ chunk = KEY_MAPPING[i].seq) => tokens = <<KEY_MAPPING[i].key>>

(***************************************************************************)
(* C12.  Decoding goes left to right until the chunk is empty: every       *)
(* iteration either consumes a table sequence that prefixes the remainder  *)
(* and dispatches its token, or, when no sequence prefixes it, dispatches  *)
(* the leading character and consumes one character.  The remainder is     *)
(* always a suffix of the chunk and gets strictly shorter, so decoding     *)
(* ends; the tokens are dispatched in input order; a chunk none of whose   *)
(* characters begins a table sequence yields its characters as tokens.     *)
(***************************************************************************)
DecodeIteration ==
    (currentInput # <<>> /\ currentInput' # currentInput) =>
        /\ chunk' = chunk
        /\ Len(currentInput') < Len(currentInput)
        /\ last'.op = "_handleKey"
        /\ tokens' = Append(tokens, last'.key)
        /\ ManagerCalls(calls') = <<[fn |-> "scene.handleKey", node |-> TheScene, key |-> last'.key]>>
        /\ \/ \E i \in DOMAIN KEY_MAPPING :
                 /\ StartsWith(currentInput, KEY_MAPPING[i].seq)
                 /\ last'.key = KEY_MAPPING[i].key
                 /\ currentInput' = SubSeq(currentInput, Len(KEY_MAPPING[i].seq) + 1, Len(currentInput))
           \/ /\ \A i \in DOMAIN KEY_MAPPING : ~StartsWith(currentInput, KEY_MAPPING[i].seq)
              /\ last'.key = currentInput[1]
              /\ currentInput' = Tail(currentInput)

RemainderIsSuffix ==
    /\ Len(currentInput) <= Len(chunk)
    /\ currentInput = SubSeq(chunk, Len(chunk) - Len(currentInput) + 1, Len(chunk))
    /\ currentInput = <<>> => Len(tokens) <= Len(chunk)

LiteralsDecodeToThemselves ==
    (Decoded /\ \A i \in DOMAIN chunk : chunk[i] \notin Starters) => tokens = chunk

C12_LeftToRight ==
    /\ [][DecodeIteration]_vars
    /\ [](RemainderIsSuffix /\ LiteralsDecodeToThemselves)
    /\ (currentInput # <<>>) ~> (currentInput = <<>>)

\* A literal character followed by the sequence of 'up' has been decoded.
C12_Witness ==
    /\ Decoded
    /\ chunk = <<"a", "ESC", "[", "A">>
    /\ tokens = <<"a", "up">>

(***************************************************************************)
(* C16.  InputManager.handleKey(key), and simulateKeyPress(key), call the  *)
(* global handlers registered for key, one call for each registration, in  *)
(* registration order and with key as argument, then the scene's handleKey *)
(* once with key, whatever the global handlers did.  As stated, both       *)
(* return what the scene returned (C16_ReturnsSceneResult).  In the code   *)
(* handleKey does, and simulateKeyPress, declared void, returns nothing    *)
(* (C16_GlobalsThenScene).                                                 *)
(***************************************************************************)
\* The calls made by a step of handleKey or simulateKeyPress.
ManagerCallsMade ==
    /\ ManagerCalls(calls') = ExpectedCalls(GlobalsFor(last'.key), last'.key)
    /\ \A i \in 1..Len(GlobalsFor(last'.key)) :
          calls'[i] = [fn |-> "globalHandler", node |-> GlobalsFor(last'.key)[i],
                       key |-> last'.key, value |-> <<>>]
    /\ globalHandlers' = globalHandlers

\* The claim as stated: both operations return the result of the scene.
ManagerStepAsStated ==
    (nops' = nops + 1 /\ last'.op \in {"inputManager.handleKey", "simulateKeyPress"}) =>
        /\ ManagerCallsMade
        /\ last'.ret = SceneHandleKey(St, last'.key).ret

C16_ReturnsSceneResult == [][ManagerStepAsStated]_vars

\* The claim as amended: handleKey returns the result of the scene, simulateKeyPress
\* returns nothing.
ManagerStep ==
    (nops' = nops + 1 /\ last'.op \in {"inputManager.handleKey", "simulateKeyPress"}) =>
        /\ ManagerCallsMade
        /\ last'.op = "inputManager.handleKey" =>
               last'.ret = SceneHandleKey(St, last'.key).ret
        /\ last'.op = "simulateKeyPress" => ~last'.ret

C16_GlobalsThenScene == [][ManagerStep]_vars

\* Two global handlers are registered for 'a' and 'a' was simulated.
C16_Witness ==
    /\ last.op = "simulateKeyPress"
    /\ last.key = "a"
    /\ globalHandlers["a"] = <<"h2", "h1">>
    /\ Len(calls) >= 3
    /\ calls[1].node = "h2" /\ calls[2].node = "h1" /\ calls[3].fn = "scene.handleKey"
    /\ ~last.ret

(***************************************************************************)
(* C17.  A key decoded from terminal input is dispatched like a simulated  *)
(* key press: the global handlers registered for the token are invoked,    *)
(* and then the scene's handleKey.                                         *)
(***************************************************************************)
C17_DecodedKeyReachesGlobals ==
    (last.op = "_handleKey" /\ GlobalsFor(last.key) # <<>>) =>
        ManagerCalls(calls) = ExpectedCalls(GlobalsFor(last.key), last.key)

(***************************************************************************)
(* C15.  Drawing a filled rectangle of size (w, h) at absolute position    *)
(* (x, y) emits exactly h rows; row i (0 <= i < h) moves the cursor to     *)
(* terminal row y+i+1, column x+1, sets the background to the rectangle's  *)
(* colour, writes exactly 2*w spaces and resets the colours, so nothing    *)
(* written after the fill is coloured.                                     *)
(***************************************************************************)
C15_FilledRectangle ==
    (rect.fill /\ wire # <<>>) =>
        /\ Len(wire) = 1 + 4 * rect.h
        /\ wire[1] = [csi |-> "H", args |-> <<rect.y + 1, rect.x + 1>>, text |-> <<>>]
        /\ \A i \in 0..(rect.h - 1) :
              /\ wire[4 * i + 2] = [csi |-> "H", args |-> <<rect.y + i + 1, rect.x + 1>>,
                                    text |-> <<>>]
              /\ wire[4 * i + 3] = [csi |-> "m", args |-> <<48, 2>> \o rect.color, text |-> <<>>]
              /\ wire[4 * i + 4].csi = ""
              /\ Len(wire[4 * i + 4].text) = 2 * rect.w
              /\ \A j \in 1..(2 * rect.w) : wire[4 * i + 4].text[j] = " "
              /\ wire[4 * i + 5] = [csi |-> "m", args |-> <<0>>, text |-> <<>>]

\* The red (4,2) rectangle at (0,0) has been drawn: two rows of 8 spaces.
C15_Witness ==
    /\ rect = [x |-> 0, y |-> 0, w |-> 4, h |-> 2, fill |-> TRUE, color |-> <<255, 0, 0>>]
    /\ Len(wire) = 9
    /\ wire[4].text = <<" ", " ", " ", " ", " ", " ", " ", " ">>
    /\ wire[8].text = <<" ", " ", " ", " ", " ", " ", " ", " ">>
    /\ wire[9].args = <<0>>

(***************************************************************************)
(* C21.  After any sequence of addChild and removeChild calls below the    *)
(* scene, the focus registry holds exactly the focusable components        *)
(* reachable from the scene, each once.  The code fails this: only the     *)
(* direct children of the scene are registered.                            *)
(***************************************************************************)
C21_RegistryIsReachableFocusables ==
    /\ Registry = FocusablesInScene
    /\ \A c \in Components : Occurrences(focusableComponents, c) <= 1

(***************************************************************************)
(* C22.  When Scene.removeChild removes the focused component from the     *)
(* registry, focus moves to the entry that followed it in registry order   *)
(* (to the first entry when it was the last one), and becomes unset only   *)
(* when no entry remains.  The code fails this: focus goes to the first    *)
(* remaining entry.                                                        *)
(***************************************************************************)
FocusedRemovedStep ==
    (/\ nops' = nops + 1
     /\ last'.op = "removeChild"
     /\ last'.node = TheScene
     /\ last'.ret
     /\ focusedComponent = last'.target
     /\ focusedComponent \in Registry)
    => IF Len(focusableComponents) = 1
       THEN focusedComponent' = NoNode
       ELSE focusedComponent' = NextInRegistry(focusedComponent)

C22_FocusMovesToNext == [][FocusedRemovedStep]_vars

(***************************************************************************)
(* C27.  removeChild(child) on a parent that does not hold child returns   *)
(* false and changes nothing: child lists, parent links, focus registry,   *)
(* focused reference and focus flags are as before.                        *)
(***************************************************************************)
NotFoundStep ==
    (/\ nops' = nops + 1
     /\ last'.op = "removeChild"
     /\ IndexOf(children[last'.node], last'.target) = 0)
    => /\ ~last'.ret
       /\ children' = children
       /\ parent' = parent
       /\ focusableComponents' = focusableComponents
       /\ focusedComponent' = focusedComponent
       /\ isFocused' = isFocused

C27_RemoveAbsentChild == [][NotFoundStep]_vars

\* The scene was asked to remove a component that is a child of the group, while
\* another component held the focus.
C27_Witness ==
    /\ last.op = "removeChild"
    /\ last.node = TheScene
    /\ ~last.ret
    /\ parent[last.target] = "G1"
    /\ focusedComponent \in Registry
    /\ isFocused[focusedComponent]

(***************************************************************************)
(* C23.  setFocus(x) while another component y is focused calls y.onBlur   *)
(* once, then sets the focused reference to x, then calls x.onFocus once;  *)
(* setFocus(null) calls only y.onBlur and leaves nothing focused.          *)
(***************************************************************************)
SetFocusStep ==
    (/\ nops' = nops + 1
     /\ last'.op = "setFocus"
     /\ focusedComponent # NoNode
     /\ focusedComponent # last'.target)
    => /\ focusedComponent' = last'.target
       /\ ~isFocused'[focusedComponent]
       /\ IF last'.target # NoNode
          THEN /\ calls' = <<[fn |-> "onBlur", node |-> focusedComponent,
                              focused |-> focusedComponent],
                             [fn |-> "onFocus", node |-> last'.target,
                              focused |-> last'.target]>>
               /\ isFocused'[last'.target]
          ELSE /\ calls' = <<[fn |-> "onBlur", node |-> focusedComponent,
                              focused |-> focusedComponent]>>
               /\ \A c \in Components : ~isFocused'[c]

C23_BlurThenFocus == [][SetFocusStep]_vars

\* The focus was taken from the button and given to the text input.
C23_Witness ==
    /\ last.op = "setFocus"
    /\ last.before = "B1"
    /\ last.target = "I1"
    /\ focusedComponent = "I1"
    /\ Len(calls) = 2
    /\ calls[1].fn = "onBlur" /\ calls[2].fn = "onFocus"

(***************************************************************************)
(* C24.  setFocus(x) when x is already focused leaves the focus state as   *)
(* it was: x is the focused reference, x.isFocused is true and no other    *)
(* component is focused; x.onBlur and x.onFocus are called again.          *)
(***************************************************************************)
RefocusStep ==
    (/\ nops' = nops + 1
     /\ last'.op = "setFocus"
     /\ focusedComponent # NoNode
     /\ focusedComponent = last'.target)
    => /\ focusedComponent' = focusedComponent
       /\ isFocused' = isFocused
       /\ isFocused'[focusedComponent]
       /\ \A c \in Components \ {focusedComponent} : ~isFocused'[c]
       /\ calls' = <<[fn |-> "onBlur", node |-> focusedComponent, focused |-> focusedComponent],
                     [fn |-> "onFocus", node |-> focusedComponent, focused |-> focusedComponent]>>

C24_RefocusIdempotent == [][RefocusStep]_vars

\* setFocus was called on the button that already had the focus.
C24_Witness ==
    /\ last.op = "setFocus"
    /\ last.before = "B2"
    /\ last.target = "B2"
    /\ focusedComponent = "B2"
    /\ isFocused["B2"]
    /\ Len(calls) = 2

(***************************************************************************)
(* C25.  When the focused component's handleKey reports the key handled,   *)
(* Scene.handleKey returns true at once: the focused reference stays, no   *)
(* focus callback runs and the handler registered on the scene for the key *)
(* is not invoked.                                                         *)
(***************************************************************************)
HandledByFocusedStep ==
    (/\ nops' = nops + 1
     /\ last'.op = "handleKey"
     /\ focusedComponent # NoNode
     /\ ComponentHandleKey(St, focusedComponent, last'.key).ret)
    => /\ last'.ret
       /\ focusedComponent' = focusedComponent
       /\ focusableComponents' = focusableComponents
       /\ isFocused' = isFocused
       /\ \A i \in DOMAIN calls' : calls'[i].fn \notin {"sceneHandler", "onBlur", "onFocus"}

C25_FocusedHandlesFirst == [][HandledByFocusedStep]_vars

\* The focused button took 'enter' although the scene has a handler for 'enter'.
C25_Witness ==
    /\ last.op = "handleKey"
    /\ last.key = "enter"
    /\ last.ret
    /\ "enter" \in keyboardHandlers
    /\ focusedComponent = "B1"
    /\ Len(calls) = 1
    /\ calls[1].fn = "onClick"

(***************************************************************************)
(* C26.  The handler registered on the scene for a key is the last stage   *)
(* of handleKey; in particular the handler for 'tab' is not invoked while  *)
(* tab navigation can move the focus, that is, while a registered          *)
(* component is focused and another one is registered.  The code fails     *)
(* this: the navigation stage never handles 'tab', so the handler runs.    *)
(***************************************************************************)
C26_TabHandlerAfterNavigation ==
    (/\ last.op = "handleKey"
     /\ last.key = "tab"
     /\ last.before \in Registry
     /\ Len(focusableComponents) >= 2)
    => \A i \in DOMAIN calls : calls[i].fn # "sceneHandler"

(***************************************************************************)
(* C28.  The decoder keeps nothing between chunks: the tokens dispatched   *)
(* for a chunk are those of decoding that chunk alone, so a sequence split *)
(* between two chunks (ESC, then [ A) never yields its token ('up'); each  *)
(* part is decoded on its own.                                             *)
(***************************************************************************)
RECURSIVE TokensOf(_)
\* The tokens of a chunk decoded from nothing but its own contents.
TokensOf(input) ==
    IF input = <<>> THEN <<>>
    ELSE <<KeyOf(input, MatchFrom(input, 1))>>
         \o TokensOf(Substring(input, Consumed(MatchFrom(input, 1))))

\* The chunk holds the whole sequence of entry i.
Holds(c, i) ==
    \E k \in 1..Len(c) :
        /\ k + Len(KEY_MAPPING[i].seq) - 1 <= Len(c)
        /\ SubSeq(c, k, k + Len(KEY_MAPPING[i].seq) - 1) = KEY_MAPPING[i].seq

C28_ChunksAreIndependent ==
    /\ Decoded => tokens = TokensOf(chunk)
    /\ \A i \in DOMAIN KEY_MAPPING :
          (Len(KEY_MAPPING[i].seq) > 1 /\ KEY_MAPPING[i].key \in Range(tokens)) => Holds(chunk, i)

\* ESC was read, then [ A: the second chunk gave the two literal tokens.
C28_Witness ==
    /\ Decoded
    /\ previous = <<"ESC">>
    /\ chunk = <<"[", "A">>
    /\ tokens = <<"[", "A">>

(***************************************************************************)
(* C29.  On every path by which the input loop ends after start() has put  *)
(* the terminal in raw mode (stop(), end of the stream, an error of the    *)
(* read), the terminal is back in its prior mode.  The code fails this on  *)
(* the paths that do not go through stop().                                *)
(***************************************************************************)
C29_RawModeRestored ==
    (loop.pc = "done" /\ loop.originalRawOptions /\ ~loop.restoreFailed) => ~loop.raw

(***************************************************************************)
(* C30.  After stop() while the loop is running, the loop starts no other  *)
(* read: it ends when its pending read returns, after handling what the    *)
(* read returned, or at once when stop() was called from a key handler,    *)
(* and the promise returned by stop() then resolves.  The code fails the   *)
(* last part for a stop() that follows a start() made before an earlier    *)
(* stop() has finished: its promise is rejected, or resolves while the     *)
(* loop is still reading.                                                  *)
(***************************************************************************)
\* A read is started only while running is true.
NoReadWhenStopped == loop'.reads > loop.reads => loop'.running

\* With running false the loop leaves _handleInput and the read for its end only.
ExitWhenStopped ==
    (/\ ~loop.running
     /\ loop.pc \in {"reading", "handling"}
     /\ loop'.pc # loop.pc
     /\ ~loop'.running)
    => loop'.pc \in {"handling", "done"} /\ loop'.reads = loop.reads

\* A stop() called while a loop is active waits for the promise of that loop: its own
\* promise is not rejected and does not resolve before the loop has ended.
StopWaitsForLoop ==
    \A i \in DOMAIN loop.stops : loop.stops[i].active => loop.stops[i].awaited = "loop"

\* The i-th stop() awaits a loop that has ended.
StopMayResolve(i) ==
    /\ i \in DOMAIN loop.stops
    /\ loop.stops[i].awaited = "loop"
    /\ loop.stops[i].state = "ready"

StopResolved(i) == i \in DOMAIN loop.stops /\ loop.stops[i].state = "resolved"

C30_StopEndsLoop ==
    /\ [][NoReadWhenStopped /\ ExitWhenStopped]_vars
    /\ []StopWaitsForLoop
    /\ (loop.pc = "handling" /\ ~loop.running) ~> (loop.pc = "done" \/ loop.running)
    /\ \A i \in 1..MaxLoopOps : StopMayResolve(i) ~> StopResolved(i)

(***************************************************************************)
(* C31.  A render pass never sees a focus change half done: in every       *)
(* render pass that runs during an operation on the scene, the focused     *)
(* reference of the scene, if set, is the one component whose isFocused    *)
(* flag is true, so no pass runs between the blur of the old component and *)
(* the focus of the new one.  The code fails this: onBlur and onFocus      *)
(* themselves render the scene, inside setFocus.                           *)
(***************************************************************************)
C31_RenderSeesWholeFocusChange ==
    \A i \in DOMAIN passes :
        passes[i].focused # NoNode => passes[i].flagged = {passes[i].focused}

(***************************************************************************)
(* C32.  Every write of a draw routine of a frame, those of image nodes    *)
(* included, comes after the clear-screen of that frame and before its     *)
(* renderScene returns with its flush, and so never after the flush or     *)
(* inside a later frame.                                                   *)
(***************************************************************************)
\* The write at index i lies between the clear-screen and the flush of its own frame.
InOwnFrame(i) ==
    /\ \E c \in 1..(i - 1) : wire[c].frame = wire[i].frame /\ wire[c].by = "clearScreen"
    /\ \A j \in 1..(i - 1) : ~(wire[j].frame = wire[i].frame /\ wire[j].by = "flush")
    /\ \A j \in 1..(i - 1) : wire[j].frame <= wire[i].frame

C32_DrawOutputInsideFrame ==
    \A i \in DOMAIN wire : wire[i].by \in {"Rectangle", "Image"} => InOwnFrame(i)

\* Two frames are drawn with the KittyUtil that writes images; the image of the second
\* frame is written after the rectangle of that frame and before its flush.
C32_Witness ==
    /\ images.kitty = "part_001"
    /\ nops = 2
    /\ Len(wire) >= 4
    /\ wire[Len(wire)].by = "flush" /\ wire[Len(wire)].frame = 2
    /\ wire[Len(wire) - 1].by = "Image" /\ wire[Len(wire) - 1].frame = 2
    /\ wire[Len(wire) - 2].by = "Rectangle" /\ wire[Len(wire) - 2].frame = 2
    /\ \E i \in DOMAIN wire : wire[i].by = "Image" /\ wire[i].frame = 1

(***************************************************************************)
(* C33.  When a focusable component is added below a scene, directly or    *)
(* inside a group, while nothing is focused, the scene focuses the first   *)
(* entry of the registry: afterwards the scene has a focused component,    *)
(* the first registry entry, whose isFocused flag is true.  The code fails *)
(* this for a component added inside a group.                              *)
(***************************************************************************)
FirstFocusableAddedStep ==
    (/\ nops' = nops + 1
     /\ last'.op = "addChild"
     /\ last'.target \in Components
     /\ last'.target \in Subtree(children', TheScene)
     /\ focusedComponent = NoNode)
    => /\ Len(focusableComponents') > 0
       /\ focusedComponent' = focusableComponents'[1]
       /\ isFocused'[focusedComponent']
       /\ \A c \in Range(focusableComponents') : SortKey(focusedComponent') <= SortKey(c)

C33_FirstFocusableGetsFocus == [][FirstFocusableAddedStep]_vars

(***************************************************************************)
(* C34.  After any sequence of addChild calls, a node added to itself or   *)
(* an ancestor added below one of its own descendants included, the parent *)
(* links contain no cycle, so that updateTransform on a root ends after    *)
(* visiting every node below it once, parents before children.  The code   *)
(* fails the first part: addChild checks nothing and closes the cycle.     *)
(***************************************************************************)
RECURSIVE AncestorsUpTo(_, _, _)
\* The nodes met by following at most k parent links from n.
AncestorsUpTo(pa, n, k) ==
    IF k = 0 \/ pa[n] = NoNode THEN {}
    ELSE {pa[n]} \cup AncestorsUpTo(pa, pa[n], k - 1)

C34_NoParentCycle ==
    \A n \in Nodes : n \notin AncestorsUpTo(parent, n, Cardinality(Nodes))

(***************************************************************************)
(* C35.  Between the operations on a scene (setFocus, addChild,            *)
(* removeChild, handleKey), the isFocused flag of a component is true if   *)
(* and only if the component is the scene's focusedComponent: at most one  *)
(* component is focused, and none is after setFocus(null).                 *)
(***************************************************************************)
C35_FlagIffFocused ==
    /\ \A c \in Components : isFocused[c] <=> focusedComponent = c
    /\ Cardinality({c \in Components : isFocused[c]}) <= 1
    /\ (last.op = "setFocus" /\ last.target = NoNode) => \A c \in Components : ~isFocused[c]

\* setFocus(null) on a scene with two registered components, one of which was focused.
C35_Witness ==
    /\ last.op = "setFocus"
    /\ last.target = NoNode
    /\ last.before # NoNode
    /\ Len(insertionOrder) >= 2
    /\ insertionOrder[1] # last.before
    /\ \A c \in Components : ~isFocused[c]

(***************************************************************************)
(* C36.  Once stop() has been called on the input handler, no key token is *)
(* dispatched to the scene any more: not the remaining tokens of the chunk *)
(* being decoded when a key handler called stop(), not the tokens of the   *)
(* chunk that the pending read returns.  The code fails this: the running  *)
(* flag is read only before a read is started.                             *)
(***************************************************************************)
\* A token is dispatched only while the handler is running.
DispatchWhileRunning ==
    (tokens' # tokens /\ tokens' # <<>>) => loop.running

C36_NoDispatchAfterStop == [][DispatchWhileRunning]_vars

(***************************************************************************)
(* C37.  Whenever the running flag of the input handler is true an input   *)
(* loop is active, and at most one is: start() while running starts no     *)
(* second loop, and a start() after the loop has ended because the stream  *)
(* closed or a read failed launches a new loop.  The code fails this: a    *)
(* loop that ends by itself leaves running true, and start() then returns  *)
(* at once.                                                                *)
(***************************************************************************)
RunningMeansLoopActive == loop.running => loop.pc \in {"reading", "handling"}

\* start() on a handler whose loop has ended starts a read of a new loop.
StartAfterEndLaunches ==
    (last'.op = "start" /\ nops' = nops + 1 /\ loop.pc = "done")
    => loop'.pc = "reading" /\ loop'.reads = loop.reads + 1

C37_OneLoopWhileRunning == []RunningMeansLoopActive /\ [][StartAfterEndLaunches]_vars

(***************************************************************************)
(* C38.  Every printable character of a chunk, the space included, that    *)
(* the input handler decodes and dispatches to a focused TextInput with    *)
(* room left is inserted into the value of the input at the cursor.  The   *)
(* code fails this for the space, which the key table turns into the key   *)
(* name 'space'.                                                           *)
(***************************************************************************)
\* The printable characters that the chunks are made of.
Printable == LiteralChars \cup {" "}

PrintableInsertedStep ==
    (/\ currentInput # <<>>
     /\ currentInput' = Tail(currentInput)
     /\ currentInput[1] \in Printable
     /\ focusedComponent = "I1"
     /\ isFocused["I1"]
     /\ Len(value["I1"]) < InputWidth - 3)
    => /\ value'["I1"] = InsertAt(value["I1"], cursorPos["I1"], currentInput[1])
       /\ cursorPos'["I1"] = cursorPos["I1"] + 1

C38_PrintableIsInserted == [][PrintableInsertedStep]_vars

(***************************************************************************)
(* C39.  After any sequence of keys handled by a TextInput, the cursor is  *)
(* between 0 and the length of the value, and typing never makes the value *)
(* longer than width - 3; a key that cannot be applied (backspace or left  *)
(* at position 0, delete or right at the end, a character when the input  *)
(* is full, any key while the input is unfocused) returns false and leaves *)
(* value and cursor as they were.  As stated, this is for every key        *)
(* (C39_RefusalsAnyKey).  In the code the focused input returns true for a *)
(* key that a registered handler handles, applicable or not: the statement *)
(* holds for the keys that no registered handler handles                   *)
(* (C39_CursorAndRefusals).                                                *)
(***************************************************************************)
CursorInValue ==
    \A c \in TextInputs :
        /\ 0 <= cursorPos[c]
        /\ cursorPos[c] <= Len(value[c])
        /\ Len(value[c]) <= InputWidth - 3

\* The key cannot be applied to text input c as it is.
CannotApply(c, key) ==
    \/ ~isFocused[c]
    \/ key \in {"backspace", "left"} /\ cursorPos[c] = 0
    \/ key \in {"delete", "right"} /\ cursorPos[c] = Len(value[c])
    \/ Len(key) = 1 /\ Len(value[c]) >= InputWidth - 3

\* The step gives text input c a key that cannot be applied.
RefusedKey(c) ==
    /\ nops' = nops + 1
    /\ last'.op = "component.handleKey"
    /\ last'.node = c
    /\ CannotApply(c, last'.key)

\* The key is refused: false is returned and value and cursor stay.
Refused ==
    /\ ~last'.ret
    /\ value' = value
    /\ cursorPos' = cursorPos

\* The claim as stated: whatever handlers are registered.
RefusedKeyStepAnyKey == \A c \in TextInputs : RefusedKey(c) => Refused

C39_RefusalsAnyKey == []CursorInValue /\ [][RefusedKeyStepAnyKey]_vars

\* The claim as amended: for the keys that no registered handler handles.
RefusedKeyStep ==
    \A c \in TextInputs :
        (RefusedKey(c) /\ (isFocused[c] => Registered19(c, last'.key) # "handles"))
        => Refused

C39_CursorAndRefusals == []CursorInValue /\ [][RefusedKeyStep]_vars

\* A character has been refused by the focused input, which is full.
C39_Witness ==
    /\ last.op = "component.handleKey"
    /\ last.node = "I1"
    /\ last.key = "a"
    /\ ~last.ret
    /\ isFocused["I1"]
    /\ Len(value["I1"]) = InputWidth - 3
    /\ cursorPos["I1"] = Len(value["I1"])

(***************************************************************************)
(* C40.  After any sequence of addTab, setActiveTab and handleKey('tab')   *)
(* calls on a tab container that has at least one tab, activeTabIndex is   *)
(* the index of a tab and the children of the content area are exactly the *)
(* content of the active tab; setActiveTab with an index out of range      *)
(* changes nothing; handleKey('tab') issued as many times as there are     *)
(* tabs comes back to the tab that was active before.                      *)
(***************************************************************************)
ActiveTabShown ==
    Len(tabs) >= 1 =>
        /\ activeTabIndex \in 0..(Len(tabs) - 1)
        /\ children[contentArea["T"]] = <<tabs[activeTabIndex + 1]>>

TabCycleReturns ==
    (Len(tabs) >= 1 /\ tabRun.n = Len(tabs)) => activeTabIndex = tabRun.start

OutOfRangeStep ==
    (nops' = nops + 1 /\ last'.op = "setActiveTab" /\ ~last'.ret)
    => UNCHANGED <<parent, children, position, absolutePosition, visible, isFocused, tabs,
                   activeTabIndex, focusedComponent, focusableComponents, frame>>

====
